---- MODULE Spec2Model ----
(***************************************************************************)
(* k8s-node-proxy: node selection, health monitoring and failover of the   *)
(* three node-discovery implementations (GKE NodeDiscovery,               *)
(* EKSNodeDiscovery, GenericNodeDiscovery) and the forwarding handler.     *)
(*                                                                         *)
(* Time is counted in monitor periods (one unit = 15 s, the ticker         *)
(* interval).  A time.Time field t of the code is kept as time.Since(t)    *)
(* in units, saturated at the largest threshold the code compares it to.   *)
(***************************************************************************)
EXTENDS Integers, Sequences, FiniteSets, TLC

VARIABLES
    impl,            \* which implementation runs: "gke" | "eks" | "generic"
    \* the cluster, as the Kubernetes API reports it
    cluster,         \* node name -> status of its Ready condition: "True" | "False"
    \* fields of the node-discovery object
    currentNodeName, \* d.currentNodeName
    currentNodeIP,   \* d.currentNodeIP (GKE: d.cachedIP)
    failureCount,    \* d.failureCount
    sinceLastCheck,  \* time.Since(d.lastCheck), saturated at CheckValidTicks
    sinceCacheTime,  \* time.Since(d.cacheTime), saturated at CacheTTLTicks
    cachedNodes,     \* d.cachedNodes of Generic (GKE and EKS read theirs only in GetAllNodes)
    monitoring,      \* a healthMonitorLoop goroutine is running
    tickPending,     \* ticker.C holds a tick that the loop has not taken yet
    \* the monitor goroutine inside performHealthCheck
    monPc,           \* "idle" | "get" (Nodes().Get in flight) | "ret" (returning)
    probeNode,       \* nodeName read at the start of performHealthCheck
    probeResult,     \* what Nodes().Get returned: "none" | "ready" | "notready" | "err"
    foLog,           \* what the performFailover that just returned saw and did
    \* one request goroutine inside GetCurrentNodeIP
    reqPc,           \* "idle" | "got" (GetCurrentNodeIP has its result) | "fwd" (forwarded)
    reqResult,       \* what GetCurrentNodeIP returned and how
    forward,         \* what client.Do returned to that request: "none" | "error" | "response"
    \* history kept for the properties
    failStreak,      \* consecutive failed probes of probeNode, followed up to MaxStreak
    sinceProbe,      \* units since a probe last fetched probeNode, saturated
    probeFc,         \* failureCount as the probe that is returning found it
    \* SpecSelect
    selNodes,        \* raw node list returned by Nodes().List
    selOut,          \* result of the selection
    selPc,           \* "in" before, "out" after the selection
    \* SpecHandler: one request in proxy.Handler.ServeHTTP
    hPort,           \* port of the listener the request arrived on
    hHost,           \* r.Host, a sequence of characters
    hPath,           \* r.URL.Path
    hQuery,          \* r.URL.RawQuery
    hDiscovery,      \* what GetCurrentNodeIP returns to the handler
    hPc,             \* "off" | "recv" | "dial" (client.Do in flight) | "done"
    hStatus,         \* status code written to the client, 0 before
    hAttempts,       \* requests sent upstream
    hTarget,         \* targetURL of the request sent upstream
    hUpstream,       \* what client.Do returned: "none" | "error" | "response"
    \* SpecPorts: the PortManager, its listeners and the goroutine that calls it
    pmListeners,     \* pm.listeners: port -> index of its PortListener in lsn, 0 when absent
    lsn,             \* every PortListener created so far, in order of creation
    pmCall,          \* the call of the PortManager in progress, and its result
    \* SpecMgmt: one request on the management port
    mServer,         \* the server whose createServiceHandler built the handler
    mPath,           \* r.URL.Path
    mPc,             \* "off" | "recv" | "blocked" (waits for d.mutex) | "done"
    mStatus,         \* status code written, 0 before
    mRpc,            \* the handler has sent a request to the cluster API
    mUpstream,       \* requests the handler has sent to a node
    dLock,           \* the call that holds d.mutex during Nodes().List: "none" when none
    \* SpecBoot: main and Run of a server
    bServer,         \* the server that runs: "Server" | "GenericServer" | "EKSServer"
    bNamespace,      \* os.Getenv("NAMESPACE")
    bServicePort,    \* s.servicePort, the management port
    bCluster,        \* the services of the cluster, as the Kubernetes API lists them
    bPc,             \* where Run is
    bExit,           \* how the process ended: "none" | "error" | "ok"
    bPorts,          \* ports returned by DiscoverNodePorts
    bIdx,            \* position of the loop over bPorts
    bHandlers,       \* the handler of each listener of lsn
    bDiscover,       \* what the last DiscoverServices did and returned
    bSelect,         \* what each GetCurrentNodeIP of Run returned, in order: "ok" | "failed"
    \* SpecMonitor: the healthMonitorLoop goroutines and the calls that start and stop them
    loops,           \* every healthMonitorLoop goroutine started so far
    cancelled,       \* d.cancel() has been called: the monitor context is done
    stopCalls,       \* calls of StopHealthMonitoring so far, followed up to MaxStops
    lastFailover,    \* how the last performFailover ended: "" when none has run since
                     \* the last Ready probe, else "switched" | "none" | "error"
    \* SpecHeaders: the headers of one request in proxy.Handler.ServeHTTP
    rHeader,         \* r.Header: its entries, in the order the range loop visits them
    proxyHeader,     \* proxyReq.Header
    hdrPc,           \* "off" | "in" before the copy | "out" after
    \* SpecCalls: the goroutines that call the node discovery, and d.mutex
    calls,           \* task -> the call of the node discovery the task is in
    dmu,             \* the task that holds d.mutex locked for writing: "none" when none
    preFailure       \* no Nodes().List has returned since failureCount left 0

discVars == <<currentNodeName, currentNodeIP, failureCount, sinceLastCheck,
              sinceCacheTime, cachedNodes, monitoring, tickPending>>
monVars == <<monPc, probeNode, probeResult, foLog>>
reqVars == <<reqPc, reqResult, forward>>
histVars == <<failStreak, sinceProbe, probeFc>>
mainVars == <<cluster, discVars, monVars, reqVars, histVars>>
selVars == <<selNodes, selOut, selPc>>
handlerVars == <<hPort, hHost, hPath, hQuery, hDiscovery, hPc, hStatus, hAttempts, hTarget,
                 hUpstream>>
portVars == <<pmListeners, lsn, pmCall>>
mgmtVars == <<mServer, mPath, mPc, mStatus, mRpc, mUpstream, dLock>>
bootVars == <<bServer, bNamespace, bServicePort, bCluster, bPc, bExit, bPorts, bIdx,
              bHandlers, bDiscover, bSelect>>
lifeVars == <<loops, cancelled, stopCalls, lastFailover>>
headerVars == <<rHeader, proxyHeader, hdrPc>>
callVars == <<calls, dmu, preFailure>>
extraVars == <<portVars, mgmtVars, bootVars, lifeVars, headerVars, callVars>>
sideVars == <<selVars, handlerVars, extraVars>>
vars == <<impl, mainVars, sideVars>>

----------------------------------------------------------------------------
(* Data *)

Impls == {"gke", "eks", "generic"}

Names == {"A", "B", "C"}

\* Nodes().List returns items in key order (by name).
NameOrder == <<"A", "B", "C">>

NoName == ""
NoIP == ""

NodeHealthy == "Healthy"
NodeUnhealthy == "Unhealthy"
NodeUnknown == "Unknown"

\* no node (a nil *NodeInfo)
Nil == [Name |-> NoName, IP |-> NoIP, Status |-> NodeUnknown, CreationTime |-> 0]

MaxCreated == 2

\* 30 s validity of the current IP, in 15 s units
CheckValidTicks == 2
\* cacheTTL = 2 minutes, in 15 s units
CacheTTLTicks == 8
\* failover after this many consecutive failures
FailureThreshold == 3
\* failureCount is not followed beyond this value
MaxFailures == 4
\* failStreak is not followed beyond this value
MaxStreak == 4

\* creation timestamps of the cluster's nodes: B is the oldest, C the
\* youngest (equal timestamps are the subject of SpecSelect)
CreationTimeOf(n) == IF n = "B" THEN 1 ELSE IF n = "A" THEN 2 ELSE 3

InternalIPOf(n) == "in-" \o n
ExternalIPOf(n) == "ex-" \o n

----------------------------------------------------------------------------
(* Sequences *)

Permutations3(s) ==
    { [i \in 1..Len(s) |-> s[p[i]]] :
        p \in { q \in [1..Len(s) -> 1..Len(s)] :
                  \A i, j \in 1..Len(s) : i # j => q[i] # q[j] } }

\* time.Time.Before on creation timestamps
Before(x, y) == x.CreationTime < y.CreationTime

\* the list left as it came
SortSlice_Unsorted(s) == {s}

\* sort.Slice(nodes, less = CreationTime.Before): the result is some
\* permutation ordered by less; the sort is not stable, so equal elements
\* come out in any order.
SortSlice(s) ==
    { t \in Permutations3(s) :
        \A i, j \in 1..Len(t) : i < j => ~Before(t[j], t[i]) }

----------------------------------------------------------------------------
(* Raw node -> NodeInfo *)

\* getNodeStatus: Ready condition True -> Healthy, present but not True ->
\* Unhealthy, no Ready condition -> Unknown.
getNodeStatus(node) ==
    IF node.Ready = "None" THEN NodeUnknown
    ELSE IF node.Ready = "True" THEN NodeHealthy
    ELSE NodeUnhealthy

getNodeInternalIP(node) == node.InternalIP

\* GKE / EKS: one NodeInfo per node that has an internal IP
nodeInfoInternal(node) ==
    [Name |-> node.Name, IP |-> getNodeInternalIP(node),
     Status |-> getNodeStatus(node), CreationTime |-> node.CreationTime]

\* Generic nodeToNodeInfo: external IP, falling back to the internal IP
nodeToNodeInfo(node) ==
    [Name |-> node.Name,
     IP |-> IF node.ExternalIP # NoIP THEN node.ExternalIP ELSE node.InternalIP,
     Status |-> getNodeStatus(node), CreationTime |-> node.CreationTime]

HasInternalIP(node) == getNodeInternalIP(node) # NoIP

\* the loop of GKE/EKS getAllNodesWithMetadata before the sort
convertInternal(raw) ==
    LET kept == SelectSeq(raw, HasInternalIP)
    IN [i \in 1..Len(kept) |-> nodeInfoInternal(kept[i])]

\* the loop of Generic getAllNodesWithMetadata (no sort, nothing skipped)
convertGeneric(raw) == [i \in 1..Len(raw) |-> nodeToNodeInfo(raw[i])]

\* The possible results of a successful fetch in getAllNodesWithMetadata.
fetchedLists(im, raw) ==
    IF im = "generic" THEN {convertGeneric(raw)}
    ELSE SortSlice(convertInternal(raw))

----------------------------------------------------------------------------
(* Selection *)

IsHealthy(node) == node.Status = NodeHealthy

\* the first element whatever its status
firstHealthy_AnyStatus(nodes) == IF nodes = <<>> THEN Nil ELSE nodes[1]

\* GKE / EKS findOldestHealthyNode: the first Healthy element, or nil
firstHealthy(nodes) ==
    LET h == SelectSeq(nodes, IsHealthy)
    IN IF h = <<>> THEN Nil ELSE h[1]

\* Generic findOldestHealthyNode: filter Healthy, sort.Slice, first element
genericOldestHealthy(nodes) ==
    LET h == SelectSeq(nodes, IsHealthy)
    IN IF h = <<>> THEN {Nil} ELSE { t[1] : t \in SortSlice(h) }

\* The possible results of findOldestHealthyNode(nodes) per implementation.
findOldestHealthyNode(im, nodes) ==
    IF im = "generic" THEN genericOldestHealthy(nodes) ELSE {firstHealthy(nodes)}

----------------------------------------------------------------------------
(* The Kubernetes API *)

Min(a, b) == IF a < b THEN a ELSE b

\* every node exists; its Ready condition is True or False
ClusterStates == [Names -> {"True", "False"}]

RawNode(n) ==
    [Name |-> n, Ready |-> cluster[n], InternalIP |-> InternalIPOf(n),
     ExternalIP |-> NoIP, CreationTime |-> CreationTimeOf(n)]

\* Nodes().List on success: the nodes in name order
ListNodes == [i \in 1..Len(NameOrder) |-> RawNode(NameOrder[i])]

\* Nodes().List either fails or returns the list
ListOutcomes == {"err", "ok"}

\* Nodes().Get(name): an error (always possible), or the node with its Ready
\* condition
GetOutcomes(n) ==
    {"err"} \cup (IF cluster[n] = "True" THEN {"ready"} ELSE {"notready"})

----------------------------------------------------------------------------
(* Initial state: a freshly constructed discovery object *)

NoLog ==
    [ran |-> FALSE, listed |-> FALSE, nodes |-> <<>>, from |-> NoName,
     fromIP |-> NoIP, fromFc |-> 0, picked |-> Nil]

NoResult == [kind |-> "none", ip |-> NoIP, contacted |-> FALSE, sel |-> Nil, nodes |-> <<>>]

SelIdle ==
    /\ selNodes = <<>>
    /\ selOut = Nil
    /\ selPc = "off"

NoDiscovery == [ip |-> NoIP, err |-> FALSE]

HandlerIdle ==
    /\ hPort = ""
    /\ hHost = <<>>
    /\ hPath = ""
    /\ hQuery = ""
    /\ hDiscovery = NoDiscovery
    /\ hPc = "off"
    /\ hStatus = 0
    /\ hAttempts = 0
    /\ hTarget = <<>>
    /\ hUpstream = "none"

\* the ports the PortManager is asked for
Ports == {8080, 8081}

\* no call of the PortManager is in progress
NoCall == [name |-> "none", port |-> 0, pc |-> "idle", err |-> <<>>, before |-> 0]

\* NewPortManager: an empty map of listeners
NewPortManager ==
    /\ pmListeners = [p \in Ports |-> 0]
    /\ lsn = <<>>
    /\ pmCall = NoCall

\* no request on the management port
MgmtIdle ==
    /\ mServer = ""
    /\ mPath = ""
    /\ mPc = "off"
    /\ mStatus = 0
    /\ mRpc = FALSE
    /\ mUpstream = 0
    /\ dLock = "none"

\* DiscoverServices has not been called
NoDiscover == [services |-> <<>>, err |-> "", listed |-> FALSE, namespace |-> ""]

\* no server runs
BootIdle ==
    /\ bServer = ""
    /\ bNamespace = ""
    /\ bServicePort = 0
    /\ bCluster = <<>>
    /\ bPc = "off"
    /\ bExit = "none"
    /\ bPorts = <<>>
    /\ bIdx = 0
    /\ bHandlers = <<>>
    /\ bDiscover = NoDiscover
    /\ bSelect = <<>>

\* no monitor has been started or stopped
LifeIdle ==
    /\ loops = <<>>
    /\ cancelled = FALSE
    /\ stopCalls = 0
    /\ lastFailover = ""

\* no request whose headers are followed
HeaderIdle ==
    /\ rHeader = <<>>
    /\ proxyHeader = <<>>
    /\ hdrPc = "off"

\* the goroutines that may call the node discovery: two requests and the
\* health monitor
Requests == {"r1", "r2"}
Tasks == Requests \cup {"mon"}

\* a task that is in no call
NoTask ==
    [op |-> "none", pc |-> "idle", name |-> NoName, sel |-> Nil, nodes |-> <<>>,
     ip |-> NoIP, err |-> FALSE, listed |-> FALSE, stale |-> FALSE, avoid |-> NoName]

\* no call of the node discovery is followed
CallIdle ==
    /\ calls = [t \in Tasks |-> NoTask]
    /\ dmu = "none"
    /\ preFailure = FALSE

ExtraIdle == NewPortManager /\ MgmtIdle /\ BootIdle /\ LifeIdle /\ HeaderIdle /\ CallIdle

DiscoveryNew ==
    /\ currentNodeName = NoName
    /\ currentNodeIP = NoIP
    /\ failureCount = 0
    /\ sinceLastCheck = CheckValidTicks
    /\ sinceCacheTime = CacheTTLTicks
    /\ cachedNodes = <<>>
    /\ monitoring = FALSE
    /\ tickPending = FALSE
    /\ monPc = "idle"
    /\ probeNode = NoName
    /\ probeResult = "none"
    /\ foLog = NoLog
    /\ reqPc = "idle"
    /\ reqResult = NoResult
    /\ forward = "none"
    /\ failStreak = 0
    /\ sinceProbe = CheckValidTicks
    /\ probeFc = 0

Init ==
    /\ impl \in Impls
    /\ cluster \in ClusterStates
    /\ DiscoveryNew
    /\ SelIdle
    /\ HandlerIdle
    /\ ExtraIdle

----------------------------------------------------------------------------
(* Environment *)

\* A call that has its result returns before anything else happens: the
\* return is local to the goroutine.
Quiet == reqPc \notin {"got", "fwd"} /\ monPc # "ret"

\* 15 s pass: every time.Since grows, the ticker delivers a tick
Tick ==
    /\ Quiet
    /\ sinceLastCheck' = Min(sinceLastCheck + 1, CheckValidTicks)
    /\ sinceCacheTime' = Min(sinceCacheTime + 1, CacheTTLTicks)
    /\ sinceProbe' = Min(sinceProbe + 1, CheckValidTicks)
    /\ tickPending' = monitoring
    /\ UNCHANGED <<impl, cluster, currentNodeName, currentNodeIP, failureCount,
                   cachedNodes, monitoring, monVars, reqVars, failStreak, probeFc,
                   sideVars>>

\* a node becomes Ready or not Ready
EnvChange ==
    /\ Quiet
    /\ \E n \in Names :
          cluster' = [cluster EXCEPT ![n] = IF cluster[n] = "True" THEN "False" ELSE "True"]
    /\ UNCHANGED <<impl, discVars, monVars, reqVars, histVars, sideVars>>

----------------------------------------------------------------------------
(* GetCurrentNodeIP / discoverNodeIP *)

\* what a call of GetCurrentNodeIP did: the list that was consulted and the
\* node record that was selected
Result(k, ip, contacted, sel, nodes) ==
    [kind |-> k, ip |-> ip, contacted |-> contacted, sel |-> sel, nodes |-> nodes]

\* GKE discoverNodeIP picks the oldest healthy node and otherwise falls back
\* to the first (oldest) node of the list
gkeOldest(nodeInfos) ==
    IF firstHealthy(nodeInfos) = Nil THEN nodeInfos[1] ELSE firstHealthy(nodeInfos)

\* GKE GetCurrentNodeIP: the whole call runs under d.mutex
GetCurrentNodeIP_GKE ==
    /\ Quiet
    /\ impl = "gke"
    /\ reqPc = "idle"
    /\ reqPc' = "got"
    /\ IF currentNodeIP # NoIP /\ sinceCacheTime < CacheTTLTicks
       THEN /\ reqResult' = Result("cached", currentNodeIP, FALSE, Nil, <<>>)
            /\ UNCHANGED discVars
       ELSE \E out \in ListOutcomes :
              IF out = "err"
              THEN /\ reqResult' = Result("error", NoIP, TRUE, Nil, <<>>)
                   /\ UNCHANGED discVars
              ELSE \E nodeInfos \in fetchedLists("gke", ListNodes) :
                     IF Len(nodeInfos) = 0
                     THEN /\ reqResult' = Result("error", NoIP, TRUE, Nil, nodeInfos)
                          /\ UNCHANGED discVars
                     ELSE /\ currentNodeName' = gkeOldest(nodeInfos).Name
                          /\ currentNodeIP' = gkeOldest(nodeInfos).IP
                          /\ sinceCacheTime' = 0
                          /\ reqResult' = Result("selected", gkeOldest(nodeInfos).IP, TRUE, gkeOldest(nodeInfos),
                                                   nodeInfos)
                          /\ UNCHANGED <<failureCount, sinceLastCheck, cachedNodes,
                                         monitoring, tickPending>>
    /\ UNCHANGED <<impl, cluster, monVars, histVars, sideVars, forward>>

\* EKS GetCurrentNodeIP: the fast path under RLock, else discoverNodeIP,
\* which holds d.mutex from the List call to the update of the selection
GetCurrentNodeIP_EKS ==
    /\ Quiet
    /\ impl = "eks"
    /\ reqPc = "idle"
    /\ reqPc' = "got"
    /\ IF currentNodeIP # NoIP /\ sinceLastCheck < CheckValidTicks
       THEN /\ reqResult' = Result("cached", currentNodeIP, FALSE, Nil, <<>>)
            /\ UNCHANGED discVars
       ELSE \E out \in ListOutcomes :
              IF out = "err"
              THEN /\ reqResult' = Result("error", NoIP, TRUE, Nil, <<>>)
                   /\ UNCHANGED discVars
              ELSE \E nodes \in fetchedLists("eks", ListNodes) :
                     IF Len(nodes) = 0 \/ firstHealthy(nodes) = Nil
                     THEN /\ reqResult' = Result("error", NoIP, TRUE, Nil, nodes)
                          /\ UNCHANGED discVars
                     ELSE /\ currentNodeName' = firstHealthy(nodes).Name
                          /\ currentNodeIP' = firstHealthy(nodes).IP
                          /\ sinceLastCheck' = 0
                          /\ failureCount' = 0
                          /\ reqResult' = Result("selected", firstHealthy(nodes).IP, TRUE, firstHealthy(nodes),
                                                   nodes)
                          /\ UNCHANGED <<sinceCacheTime, cachedNodes, monitoring, tickPending>>
    /\ UNCHANGED <<impl, cluster, monVars, histVars, sideVars, forward>>

\* Generic getAllNodesWithMetadata on the cache as it stands: the cached list
\* while it is younger than cacheTTL, else Nodes().List, whose result replaces
\* the cache
genericGetAllNodes(cache) ==
    IF Len(cache) > 0 /\ sinceCacheTime < CacheTTLTicks
    THEN {[ok |-> TRUE, rpc |-> FALSE, nodes |-> cache]}
    ELSE {[ok |-> FALSE, rpc |-> TRUE, nodes |-> <<>>],
          [ok |-> TRUE, rpc |-> TRUE, nodes |-> convertGeneric(ListNodes)]}

\* Generic GetCurrentNodeIP and discoverNodeIP: the fast path on lastCheck,
\* the cached IP while cacheTime is younger than cacheTTL, else
\* getAllNodesWithMetadata, findOldestHealthyNode and the update of the
\* selection
GetCurrentNodeIP_Generic ==
    /\ Quiet
    /\ impl = "generic"
    /\ reqPc = "idle"
    /\ reqPc' = "got"
    /\ IF currentNodeIP # NoIP /\ sinceLastCheck < CheckValidTicks
       THEN /\ reqResult' = Result("cached", currentNodeIP, FALSE, Nil, <<>>)
            /\ UNCHANGED discVars
       ELSE IF currentNodeIP # NoIP /\ sinceCacheTime < CacheTTLTicks
       THEN /\ sinceLastCheck' = 0
            /\ reqResult' = Result("cached", currentNodeIP, FALSE, Nil, <<>>)
            /\ UNCHANGED <<currentNodeName, currentNodeIP, failureCount, sinceCacheTime,
                           cachedNodes, monitoring, tickPending>>
       ELSE \E got \in genericGetAllNodes(cachedNodes) :
              /\ cachedNodes' = IF got.ok /\ got.rpc THEN got.nodes ELSE cachedNodes
              /\ IF ~got.ok \/ Len(got.nodes) = 0
                 THEN /\ reqResult' = Result("error", NoIP, got.rpc, Nil, got.nodes)
                      /\ UNCHANGED <<currentNodeName, currentNodeIP, failureCount,
                                     sinceLastCheck, sinceCacheTime>>
                 ELSE \E sel \in genericOldestHealthy(got.nodes) :
                        IF sel = Nil
                        THEN /\ reqResult' = Result("error", NoIP, got.rpc, Nil, got.nodes)
                             /\ sinceCacheTime' = IF got.rpc THEN 0 ELSE sinceCacheTime
                             /\ UNCHANGED <<currentNodeName, currentNodeIP, failureCount,
                                            sinceLastCheck>>
                        ELSE /\ currentNodeName' = sel.Name
                             /\ currentNodeIP' = sel.IP
                             /\ sinceCacheTime' = 0
                             /\ sinceLastCheck' = 0
                             /\ failureCount' = 0
                             /\ reqResult' = Result("selected", sel.IP, got.rpc, sel, got.nodes)
              /\ UNCHANGED <<monitoring, tickPending>>
    /\ UNCHANGED <<impl, cluster, monVars, histVars, sideVars, forward>>

\* ServeHTTP when client.Do fails, with the failure counted against the node
forwardFailed_CountsFailure(fc) == Min(fc + 1, MaxFailures)

\* ServeHTTP when client.Do fails: the error is logged and answered, and
\* d.failureCount is what it was
forwardFailed(fc) == fc

\* ServeHTTP has a node IP: it sends the request to the node, and client.Do
\* returns an error or a response
Forward ==
    /\ reqPc = "got"
    /\ reqResult.kind # "error"
    /\ reqPc' = "fwd"
    /\ reqResult' = NoResult
    /\ \E failed \in BOOLEAN :
          /\ forward' = IF failed THEN "error" ELSE "response"
          /\ failureCount' = IF failed THEN forwardFailed(failureCount) ELSE failureCount
    /\ UNCHANGED <<impl, cluster, currentNodeName, currentNodeIP, sinceLastCheck,
                   sinceCacheTime, cachedNodes, monitoring, tickPending, monVars,
                   histVars, sideVars>>

\* ServeHTTP returns: after the answer to a forwarded request, or after the
\* 503 that answers an error of GetCurrentNodeIP
RequestDone ==
    /\ \/ reqPc = "fwd"
       \/ reqPc = "got" /\ reqResult.kind = "error"
    /\ reqPc' = "idle"
    /\ reqResult' = NoResult
    /\ forward' = "none"
    /\ UNCHANGED <<impl, cluster, discVars, monVars, histVars, sideVars>>

----------------------------------------------------------------------------
(* Health monitoring *)

\* StartHealthMonitoring, as Server.Run calls it: once
StartHealthMonitoring ==
    /\ Quiet
    /\ ~monitoring
    /\ monitoring' = TRUE
    /\ UNCHANGED <<impl, cluster, currentNodeName, currentNodeIP, failureCount,
                   sinceLastCheck, sinceCacheTime, cachedNodes, tickPending,
                   monVars, reqVars, histVars, sideVars>>

\* healthMonitorLoop takes a tick; performHealthCheck reads currentNodeName,
\* returns at once when no node is selected and else calls Nodes().Get
MonitorTick ==
    /\ Quiet
    /\ monitoring
    /\ tickPending
    /\ monPc = "idle"
    /\ tickPending' = FALSE
    /\ IF currentNodeName = NoName
       THEN UNCHANGED <<monVars, histVars>>
       ELSE /\ monPc' = "get"
            /\ probeNode' = currentNodeName
            /\ failStreak' = IF currentNodeName = probeNode THEN failStreak ELSE 0
            /\ sinceProbe' = IF currentNodeName = probeNode THEN sinceProbe
                             ELSE CheckValidTicks
            /\ UNCHANGED <<probeResult, foLog, probeFc>>
    /\ UNCHANGED <<impl, cluster, currentNodeName, currentNodeIP, failureCount,
                   sinceLastCheck, sinceCacheTime, cachedNodes, monitoring,
                   reqVars, sideVars>>

\* cachedNodes with the status of the named node replaced
markCached(nodes, name, status) ==
    [i \in 1..Len(nodes) |->
        IF nodes[i].Name = name THEN [nodes[i] EXCEPT !.Status = status] ELSE nodes[i]]

\* the first Healthy node, the current one included
firstCandidate_KeepsCurrent(nodes, current) ==
    LET h == SelectSeq(nodes, IsHealthy)
    IN IF h = <<>> THEN Nil ELSE h[1]

\* the failover loops of GKE and EKS: the first node of the sorted list that
\* is Healthy and is not the current node
firstCandidate(nodes, current) ==
    LET Eligible(x) == x.Name # current /\ x.Status = NodeHealthy
        c == SelectSeq(nodes, Eligible)
    IN IF c = <<>> THEN Nil ELSE c[1]

\* the failover loop of Generic: a Healthy node other than the current one
\* replaces the candidate only when it is strictly older
genericCandidate(nodes, current) ==
    LET Eligible(x) == x.Name # current /\ x.Status = NodeHealthy
        c == SelectSeq(nodes, Eligible)
    IN IF c = <<>> THEN Nil
       ELSE c[CHOOSE i \in 1..Len(c) :
                /\ \A j \in 1..Len(c) : c[i].CreationTime <= c[j].CreationTime
                /\ \A j \in 1..(i - 1) : c[j].CreationTime > c[i].CreationTime]

\* what a performFailover saw (the list it got, the selection it started
\* from) and the candidate it picked
Log(listed, nodes, fromFc, picked) ==
    [ran |-> TRUE, listed |-> listed, nodes |-> nodes, from |-> currentNodeName,
     fromIP |-> currentNodeIP, fromFc |-> fromFc, picked |-> picked]

\* the history of probes: a failed probe lengthens the streak of probeNode,
\* a probe that fetched the node restarts sinceProbe
ProbeHistory(r) ==
    /\ failStreak' = IF r = "ready" THEN 0 ELSE failStreak + 1
    /\ sinceProbe' = IF r = "err" THEN sinceProbe ELSE 0
    /\ probeFc' = failureCount

\* failureCount is followed up to MaxFailures, failStreak up to MaxStreak
Countable(r) == (r # "ready") => (failureCount < MaxFailures /\ failStreak < MaxStreak)

\* GKE performFailover, called with d.mutex held: the cached IP is cleared,
\* then the first Healthy node other than the current one is taken from a
\* fresh list
performFailover_GKE ==
    \E out \in ListOutcomes :
       IF out = "err"
       THEN /\ currentNodeIP' = NoIP
            /\ sinceCacheTime' = CacheTTLTicks
            /\ foLog' = Log(FALSE, <<>>, failureCount + 1, Nil)
            /\ UNCHANGED currentNodeName
       ELSE \E nodes \in fetchedLists("gke", ListNodes) :
              LET c == firstCandidate(nodes, currentNodeName)
              IN /\ foLog' = Log(TRUE, nodes, failureCount + 1, c)
                 /\ IF c = Nil
                    THEN /\ currentNodeIP' = NoIP
                         /\ sinceCacheTime' = CacheTTLTicks
                         /\ UNCHANGED currentNodeName
                    ELSE /\ currentNodeIP' = c.IP
                         /\ currentNodeName' = c.Name
                         /\ sinceCacheTime' = 0

\* GKE performHealthCheck from the return of isCurrentNodeHealthy:
\* updateCurrentNodeLastCheck, then the reset of failureCount or
\* handleNodeFailure, which resets failureCount after performFailover
ProbeApply_GKE ==
    /\ Quiet
    /\ impl = "gke"
    /\ monPc = "get"
    /\ monPc' = "ret"
    /\ \E r \in GetOutcomes(probeNode) :
         /\ Countable(r)
         /\ probeResult' = r
         /\ ProbeHistory(r)
         /\ IF r = "ready"
            THEN /\ failureCount' = 0
                 /\ UNCHANGED <<currentNodeName, currentNodeIP, sinceCacheTime, foLog>>
            ELSE IF failureCount + 1 < FailureThreshold
            THEN /\ failureCount' = failureCount + 1
                 /\ UNCHANGED <<currentNodeName, currentNodeIP, sinceCacheTime, foLog>>
            ELSE /\ performFailover_GKE
                 /\ failureCount' = 0
    /\ UNCHANGED <<impl, cluster, sinceLastCheck, cachedNodes, monitoring, tickPending,
                   probeNode, reqVars, sideVars>>

\* EKS performFailover, called with d.mutex held and failureCount already
\* incremented: the oldest Healthy node other than the current one is taken
\* from a fresh list
performFailover_EKS ==
    \E out \in ListOutcomes :
       IF out = "err"
       THEN /\ failureCount' = failureCount + 1
            /\ foLog' = Log(FALSE, <<>>, failureCount + 1, Nil)
            /\ UNCHANGED <<currentNodeName, currentNodeIP, sinceLastCheck>>
       ELSE \E nodes \in fetchedLists("eks", ListNodes) :
              LET c == firstCandidate(nodes, currentNodeName)
              IN /\ foLog' = Log(TRUE, nodes, failureCount + 1, c)
                 /\ IF c = Nil
                    THEN /\ failureCount' = failureCount + 1
                         /\ UNCHANGED <<currentNodeName, currentNodeIP, sinceLastCheck>>
                    ELSE /\ currentNodeName' = c.Name
                         /\ currentNodeIP' = c.IP
                         /\ failureCount' = 0
                         /\ sinceLastCheck' = 0

\* EKS performHealthCheck from the return of Nodes().Get:
\* updateCurrentNodeLastCheck when the node was fetched, then the reset of
\* failureCount or handleNodeFailure
ProbeApply_EKS ==
    /\ Quiet
    /\ impl = "eks"
    /\ monPc = "get"
    /\ monPc' = "ret"
    /\ \E r \in GetOutcomes(probeNode) :
         /\ Countable(r)
         /\ probeResult' = r
         /\ ProbeHistory(r)
         /\ IF r = "ready"
            THEN /\ failureCount' = 0
                 /\ UNCHANGED <<currentNodeName, currentNodeIP, sinceLastCheck, foLog>>
            ELSE IF failureCount + 1 < FailureThreshold
            THEN /\ failureCount' = failureCount + 1
                 /\ UNCHANGED <<currentNodeName, currentNodeIP, sinceLastCheck, foLog>>
            ELSE performFailover_EKS
    /\ UNCHANGED <<impl, cluster, sinceCacheTime, cachedNodes, monitoring, tickPending,
                   probeNode, reqVars, sideVars>>

\* a failureCount of 1 is kept
recovered_AboveOne(fc) == IF fc > 1 THEN 0 ELSE fc

\* Generic performHealthCheck on a Ready node: a failureCount above 0 is reset
recovered(fc) == IF fc > 0 THEN 0 ELSE fc

\* Generic performFailover on the cache as updateCurrentNodeLastCheck left it:
\* getAllNodesWithMetadata, then the oldest Healthy node other than the
\* current one
performFailover_Generic(cache, checked) ==
    \E got \in genericGetAllNodes(cache) :
       LET c == IF got.ok THEN genericCandidate(got.nodes, currentNodeName) ELSE Nil
       IN /\ foLog' = Log(got.ok, got.nodes, failureCount + 1, c)
          /\ cachedNodes' = IF got.ok /\ got.rpc THEN got.nodes ELSE cache
          /\ sinceCacheTime' = IF got.ok /\ got.rpc THEN 0 ELSE sinceCacheTime
          /\ IF c = Nil
             THEN /\ failureCount' = failureCount + 1
                  /\ sinceLastCheck' = IF checked THEN 0 ELSE sinceLastCheck
                  /\ UNCHANGED <<currentNodeName, currentNodeIP>>
             ELSE /\ currentNodeName' = c.Name
                  /\ currentNodeIP' = c.IP
                  /\ failureCount' = 0
                  /\ sinceLastCheck' = 0

\* Generic performHealthCheck from the return of Nodes().Get:
\* updateCurrentNodeLastCheck when the node was fetched, then the reset of
\* failureCount or handleNodeFailure
ProbeApply_Generic ==
    /\ Quiet
    /\ impl = "generic"
    /\ monPc = "get"
    /\ monPc' = "ret"
    /\ \E r \in GetOutcomes(probeNode) :
         LET checked == r # "err"
             cache == IF checked
                      THEN markCached(cachedNodes, probeNode,
                               IF r = "ready" THEN NodeHealthy ELSE NodeUnhealthy)
                      ELSE cachedNodes
         IN /\ Countable(r)
            /\ probeResult' = r
            /\ ProbeHistory(r)
            /\ IF r = "ready"
               THEN /\ failureCount' = recovered(failureCount)
                    /\ sinceLastCheck' = 0
                    /\ cachedNodes' = cache
                    /\ UNCHANGED <<currentNodeName, currentNodeIP, sinceCacheTime, foLog>>
               ELSE IF failureCount + 1 < FailureThreshold
               THEN /\ failureCount' = failureCount + 1
                    /\ sinceLastCheck' = IF checked THEN 0 ELSE sinceLastCheck
                    /\ cachedNodes' = cache
                    /\ UNCHANGED <<currentNodeName, currentNodeIP, sinceCacheTime, foLog>>
               ELSE performFailover_Generic(cache, checked)
    /\ UNCHANGED <<impl, cluster, monitoring, tickPending, probeNode,
                   reqVars, sideVars>>

\* performHealthCheck returns to healthMonitorLoop
MonitorReturn ==
    /\ monPc = "ret"
    /\ monPc' = "idle"
    /\ probeResult' = "none"
    /\ foLog' = NoLog
    /\ probeFc' = 0
    /\ UNCHANGED <<impl, cluster, discVars, probeNode, reqVars, failStreak, sinceProbe,
                   sideVars>>

Next ==
    \/ Tick
    \/ EnvChange
    \/ GetCurrentNodeIP_GKE
    \/ GetCurrentNodeIP_EKS
    \/ GetCurrentNodeIP_Generic
    \/ Forward
    \/ RequestDone
    \/ StartHealthMonitoring
    \/ MonitorTick
    \/ ProbeApply_GKE
    \/ ProbeApply_EKS
    \/ ProbeApply_Generic
    \/ MonitorReturn

Spec == Init /\ [][Next]_vars

----------------------------------------------------------------------------
(* SpecSelect: the selection pipeline on an arbitrary node list *)

ReadyValues == {"True", "False", "None"}

RawNodeOf(n) ==
    { [Name |-> n, Ready |-> r, InternalIP |-> ii, ExternalIP |-> ei, CreationTime |-> c] :
        r \in ReadyValues, ii \in {NoIP, InternalIPOf(n)},
        ei \in {NoIP, ExternalIPOf(n)}, c \in 1..MaxCreated }

RECURSIVE RawListsFrom(_)
\* all node lists in name order over a suffix of NameOrder
RawListsFrom(i) ==
    IF i > Len(NameOrder) THEN {<<>>}
    ELSE LET rest == RawListsFrom(i + 1)
         IN rest \cup { <<r>> \o l : r \in RawNodeOf(NameOrder[i]), l \in rest }

RawLists == RawListsFrom(1)

SelInit ==
    /\ impl \in Impls
    /\ cluster = [n \in Names |-> "True"]
    /\ DiscoveryNew
    /\ selNodes \in RawLists
    /\ selOut = Nil
    /\ selPc = "in"
    /\ HandlerIdle
    /\ ExtraIdle

\* getAllNodesWithMetadata followed by findOldestHealthyNode, as in discoverNodeIP
Select ==
    /\ selPc = "in"
    /\ \E nodes \in fetchedLists(impl, selNodes) :
         \E sel \in findOldestHealthyNode(impl, nodes) :
            selOut' = sel
    /\ selPc' = "out"
    /\ UNCHANGED <<impl, mainVars, selNodes, handlerVars, extraVars>>

SelNext == Select

SpecSelect == SelInit /\ [][SelNext]_vars

\* the node records offered to selection for a raw list
OfferedTo(im, raw) ==
    IF im = "generic" THEN convertGeneric(raw) ELSE convertInternal(raw)

HealthyOffered == { i \in 1..Len(OfferedTo(impl, selNodes)) : IsHealthy(OfferedTo(impl, selNodes)[i]) }

\* C1: when the list holds at least one Healthy node, selection returns a
\* Healthy node of the list whose creation time is the minimum over the
\* Healthy nodes, whatever older non-Healthy nodes are present.
C1_OldestHealthySelected ==
    (selPc = "out" /\ HealthyOffered # {}) =>
        LET off == OfferedTo(impl, selNodes)
        IN /\ \E i \in HealthyOffered : off[i] = selOut
           /\ IsHealthy(selOut)
           /\ \A i \in HealthyOffered : selOut.CreationTime <= off[i].CreationTime

\* C1 witness: a Healthy node was selected although a strictly older node
\* that is not Healthy is in the list.
C1_Witness ==
    LET off == OfferedTo(impl, selNodes)
    IN /\ selPc = "out"
       /\ IsHealthy(selOut)
       /\ \E i \in 1..Len(off) :
            ~IsHealthy(off[i]) /\ off[i].CreationTime < selOut.CreationTime

----------------------------------------------------------------------------
(* SpecHandler: proxy.Handler.ServeHTTP on one request *)

\* the characters a Host header is made of here
Chars == {"h", "]", ":", "8", "0", "+"}
Digits == {"8", "0"}

MaxHostLen == 4

Hosts == UNION { [1..n -> Chars] : n \in 0..MaxHostLen }

\* the ports the proxy listens on
ListenPorts == {<<"8">>, <<"8", "0">>}

\* the port extractPort falls back to, "80"
DefaultPort == <<"8", "0">>

StatusOK == 200
StatusInternalServerError == 500
StatusBadGateway == 502
StatusServiceUnavailable == 503

\* what the handler can get from GetCurrentNodeIP
Discoveries == {[ip |-> "10.0.1.1", err |-> FALSE], [ip |-> NoIP, err |-> TRUE]}

\* strings.Contains(s, c) for a one-character c
Contains(s, c) == \E i \in 1..Len(s) : s[i] = c

\* strings.LastIndexByte(s, c), counting positions from 1: 0 when c is absent
LastIndexByte(s, c) ==
    IF Contains(s, c)
    THEN CHOOSE i \in 1..Len(s) : s[i] = c /\ \A j \in (i + 1)..Len(s) : s[j] # c
    ELSE 0

\* strconv.Atoi(s) returns no error: an optional sign, then one digit or more
AtoiOk(s) ==
    LET body == IF s # <<>> /\ s[1] = "+" THEN Tail(s) ELSE s
    IN body # <<>> /\ \A i \in 1..Len(body) : body[i] \in Digits

parseHostPort(hostPort) ==
    LET colon == LastIndexByte(hostPort, ":")
        bracket == LastIndexByte(hostPort, "]")
        host == SubSeq(hostPort, 1, colon - 1)
        port == SubSeq(hostPort, colon + 1, Len(hostPort))
    IN IF colon = 0 THEN [host |-> hostPort, port |-> <<>>, err |-> FALSE]
       ELSE IF bracket # 0 /\ colon <= bracket
       THEN [host |-> hostPort, port |-> <<>>, err |-> FALSE]
       ELSE IF ~AtoiOk(port) THEN [host |-> <<>>, port |-> <<>>, err |-> TRUE]
       ELSE [host |-> host, port |-> port, err |-> FALSE]

extractPort(host) ==
    IF Contains(host, ":")
    THEN LET r == parseHostPort(host)
         IN IF ~r.err /\ r.port # <<>> THEN r.port ELSE DefaultPort
    ELSE DefaultPort

\* fmt.Sprintf("http://%s:%s%s", nodeIP, port, path), then "?" and the raw
\* query when there is one: the URL as the sequence of its parts
targetURL(nodeIP, port, path, rawQuery) ==
    <<"http://", nodeIP, ":", port, path>>
        \o (IF rawQuery # "" THEN <<"?", rawQuery>> ELSE <<>>)

\* http.NewRequestWithContext returns an error: the port of the URL holds a
\* character that is no digit
newRequestFails(port) == \E i \in 1..Len(port) : port[i] \notin Digits

\* a response written by the handler itself, nothing sent upstream
Respond(code) == [status |-> code, forward |-> FALSE, target |-> <<>>]

\* handleHealth
handleHealth(disc) ==
    IF disc.err THEN Respond(StatusServiceUnavailable) ELSE Respond(StatusOK)

\* ServeHTTP with the return after the failed discovery missing
serveHTTP_NoReturn(path, host, rawQuery, disc) ==
    IF path = "/health" THEN handleHealth(disc)
    ELSE IF newRequestFails(extractPort(host)) THEN Respond(StatusInternalServerError)
    ELSE [status |-> 0, forward |-> TRUE,
          target |-> targetURL(disc.ip, extractPort(host), path, rawQuery)]

\* ServeHTTP up to client.Do: the response it writes itself, or the request
\* it sends upstream
serveHTTP(path, host, rawQuery, disc) ==
    IF path = "/health" THEN handleHealth(disc)
    ELSE IF disc.err THEN Respond(StatusServiceUnavailable)
    ELSE IF newRequestFails(extractPort(host)) THEN Respond(StatusInternalServerError)
    ELSE [status |-> 0, forward |-> TRUE,
          target |-> targetURL(disc.ip, extractPort(host), path, rawQuery)]

\* what client.Do can return: an error (dial or transport), or the response
\* of the node with its status code
DoOutcomes ==
    {[err |-> TRUE, StatusCode |-> 0]}
        \cup {[err |-> FALSE, StatusCode |-> c] : c \in {StatusOK, StatusBadGateway}}

\* ServeHTTP after client.Do, with an error of client.Do answered 200
afterDo_CopiesStatus(r) == IF r.err THEN StatusOK ELSE r.StatusCode

\* ServeHTTP after client.Do: the status code it writes
afterDo(r) == IF r.err THEN StatusBadGateway ELSE r.StatusCode

\* a request has arrived on a listener; the handler does not depend on the
\* node-discovery implementation behind GetCurrentNodeIP
HandlerInit ==
    /\ impl = "gke"
    /\ cluster = [n \in Names |-> "True"]
    /\ DiscoveryNew
    /\ SelIdle
    /\ ExtraIdle
    /\ hPort \in ListenPorts
    /\ hHost \in Hosts
    /\ hPath \in {"/health", "/foo"}
    /\ hQuery \in {"", "x=1"}
    /\ hDiscovery \in Discoveries
    /\ hPc = "recv"
    /\ hStatus = 0
    /\ hAttempts = 0
    /\ hTarget = <<>>
    /\ hUpstream = "none"

ServeHTTP ==
    /\ hPc = "recv"
    /\ LET out == serveHTTP(hPath, hHost, hQuery, hDiscovery)
       IN IF out.forward
          THEN /\ hPc' = "dial"
               /\ hAttempts' = hAttempts + 1
               /\ hTarget' = out.target
               /\ UNCHANGED hStatus
          ELSE /\ hPc' = "done"
               /\ hStatus' = out.status
               /\ UNCHANGED <<hAttempts, hTarget>>
    /\ UNCHANGED <<impl, mainVars, selVars, extraVars, hPort, hHost, hPath, hQuery, hDiscovery,
                   hUpstream>>

\* client.Do returns: an error is answered 502, a response is copied
UpstreamDone ==
    /\ hPc = "dial"
    /\ \E r \in DoOutcomes :
          /\ hUpstream' = IF r.err THEN "error" ELSE "response"
          /\ hStatus' = afterDo(r)
    /\ hPc' = "done"
    /\ UNCHANGED <<impl, mainVars, selVars, extraVars, hPort, hHost, hPath, hQuery, hDiscovery,
                   hAttempts, hTarget>>

HandlerNext ==
    \/ ServeHTTP
    \/ UpstreamDone

SpecHandler == HandlerInit /\ [][HandlerNext]_vars

----------------------------------------------------------------------------
(* SpecPorts: server.PortManager and its PortListeners.  pm.mutex is held   *)
(* for the whole of StartPort, StopPort and StopAll, so that these run one  *)
(* at a time: pmCall is the one in progress.                                *)

MaxListeners == 3
MaxConns == 1

\* fmt.Errorf("port %d already listening", port)
duplicatePortError(port) == <<"port ", port, " already listening">>

\* fmt.Errorf("port %d not listening", port)
notListeningError(port) == <<"port ", port, " not listening">>

\* &PortListener{...}: both channels open, the goroutine start not yet past
\* its receive from l.shutdown, the http.Server not yet bound
newListener(port) ==
    [port |-> port, shutdown |-> FALSE, done |-> FALSE, pc |-> "wait",
     server |-> "new", conns |-> 0, timedOut |-> FALSE]

\* StartPort without the look-up of the port in pm.listeners
exists_Never(listeners, port) == FALSE

\* _, exists := pm.listeners[port]
exists(listeners, port) == listeners[port] # 0

\* GetListeningPorts: the keys of pm.listeners
GetListeningPorts == { p \in Ports : exists(pmListeners, p) }

\* StopAll without wg.Wait
allDone_NoWait(listeners, ls) == TRUE

\* wg.Wait in StopAll: every goroutine has received from its listener's done
allDone(listeners, ls) ==
    \A p \in Ports : exists(listeners, p) => ls[listeners[p]].done

\* StopPort without delete(pm.listeners, port)
delete_Kept(listeners, port) == listeners

\* delete(pm.listeners, port)
delete(listeners, port) == [listeners EXCEPT ![port] = 0]

Call(name, port, pc, err, before) ==
    [name |-> name, port |-> port, pc |-> pc, err |-> err, before |-> before]

\* StartPort(port)
StartPort ==
    /\ pmCall.pc = "idle"
    /\ \E port \in Ports :
          IF exists(pmListeners, port)
          THEN /\ pmCall' = Call("StartPort", port, "ret", duplicatePortError(port),
                                 pmListeners[port])
               /\ UNCHANGED <<pmListeners, lsn>>
          ELSE /\ Len(lsn) < MaxListeners
               /\ lsn' = Append(lsn, newListener(port))
               /\ pmListeners' = [pmListeners EXCEPT ![port] = Len(lsn) + 1]
               /\ pmCall' = Call("StartPort", port, "ret", <<>>, pmListeners[port])
    /\ UNCHANGED <<impl, mainVars, selVars, lifeVars, headerVars, callVars, handlerVars, mgmtVars, bootVars>>

\* StopPort(port) up to its receive from listener.done
StopPort ==
    /\ pmCall.pc = "idle"
    /\ \E port \in Ports :
          IF ~exists(pmListeners, port)
          THEN /\ pmCall' = Call("StopPort", port, "ret", notListeningError(port), 0)
               /\ UNCHANGED lsn
          ELSE /\ lsn' = [lsn EXCEPT ![pmListeners[port]].shutdown = TRUE]
               /\ pmCall' = Call("StopPort", port, "wait", <<>>, pmListeners[port])
    /\ UNCHANGED <<impl, mainVars, selVars, lifeVars, headerVars, callVars, handlerVars, mgmtVars, bootVars, pmListeners>>

\* StopPort from its receive from listener.done on
StopPortDone ==
    /\ pmCall.name = "StopPort"
    /\ pmCall.pc = "wait"
    /\ lsn[pmListeners[pmCall.port]].done
    /\ pmListeners' = delete(pmListeners, pmCall.port)
    /\ pmCall' = [pmCall EXCEPT !.pc = "ret"]
    /\ UNCHANGED <<impl, mainVars, selVars, lifeVars, headerVars, callVars, handlerVars, mgmtVars, bootVars, lsn>>

\* StopAll up to wg.Wait: one goroutine per listener is started
StopAll ==
    /\ pmCall.pc = "idle"
    /\ pmCall' = Call("StopAll", 0, "wait", <<>>, 0)
    /\ UNCHANGED <<impl, mainVars, selVars, lifeVars, headerVars, callVars, handlerVars, mgmtVars, bootVars, pmListeners, lsn>>

\* a goroutine of StopAll closes the shutdown channel of its listener
StopAllClose ==
    /\ pmCall.name = "StopAll"
    /\ pmCall.pc = "wait"
    /\ \E p \in GetListeningPorts :
          /\ ~lsn[pmListeners[p]].shutdown
          /\ lsn' = [lsn EXCEPT ![pmListeners[p]].shutdown = TRUE]
    /\ UNCHANGED <<impl, mainVars, selVars, lifeVars, headerVars, callVars, handlerVars, mgmtVars, bootVars, pmListeners, pmCall>>

\* StopAll from wg.Wait on: the map is replaced by an empty one
StopAllDone ==
    /\ pmCall.name = "StopAll"
    /\ pmCall.pc = "wait"
    /\ \A p \in GetListeningPorts : lsn[pmListeners[p]].shutdown
    /\ allDone(pmListeners, lsn)
    /\ pmListeners' = [p \in Ports |-> 0]
    /\ pmCall' = [pmCall EXCEPT !.pc = "ret"]
    /\ UNCHANGED <<impl, mainVars, selVars, lifeVars, headerVars, callVars, handlerVars, mgmtVars, bootVars, lsn>>

\* the call of the PortManager returns to its caller
PortCallReturn ==
    /\ pmCall.pc = "ret"
    /\ pmCall' = NoCall
    /\ UNCHANGED <<impl, mainVars, selVars, lifeVars, headerVars, callVars, handlerVars, mgmtVars, bootVars, pmListeners, lsn>>

\* l.server.ListenAndServe in the goroutine of start: the port is bound, or
\* the bind fails (always so while another server is bound to the port)
ListenAndServe ==
    /\ \E i \in 1..Len(lsn) :
          /\ lsn[i].server = "new"
          /\ \E bound \in BOOLEAN :
                /\ bound =>
                      \A j \in 1..Len(lsn) :
                         ~(lsn[j].port = lsn[i].port /\ lsn[j].server = "listening")
                /\ lsn' = [lsn EXCEPT ![i].server = IF bound THEN "listening" ELSE "failed"]
    /\ UNCHANGED <<impl, mainVars, selVars, lifeVars, headerVars, callVars, handlerVars, mgmtVars, bootVars, pmListeners, pmCall>>

\* the server accepts a connection and starts to serve a request on it
Accept ==
    /\ \E i \in 1..Len(lsn) :
          /\ lsn[i].server = "listening"
          /\ lsn[i].conns < MaxConns
          /\ lsn' = [lsn EXCEPT ![i].conns = @ + 1]
    /\ UNCHANGED <<impl, mainVars, selVars, lifeVars, headerVars, callVars, handlerVars, mgmtVars, bootVars, pmListeners, pmCall>>

\* a request has been served and its connection is closed
ConnDone ==
    /\ \E i \in 1..Len(lsn) :
          /\ lsn[i].conns > 0
          /\ lsn' = [lsn EXCEPT ![i].conns = @ - 1]
    /\ UNCHANGED <<impl, mainVars, selVars, lifeVars, headerVars, callVars, handlerVars, mgmtVars, bootVars, pmListeners, pmCall>>

\* start receives from l.shutdown and calls l.server.Shutdown with a
\* deadline of 5 s: the server stops listening at once
Shutdown ==
    /\ \E i \in 1..Len(lsn) :
          /\ lsn[i].pc = "wait"
          /\ lsn[i].shutdown
          /\ lsn' = [lsn EXCEPT ![i].pc = "drain", ![i].server = "closed"]
    /\ UNCHANGED <<impl, mainVars, selVars, lifeVars, headerVars, callVars, handlerVars, mgmtVars, bootVars, pmListeners, pmCall>>

\* l.server.Shutdown returns, nil once no connection is active or the error
\* of the context once the 5 s are over; start logs the error and returns,
\* which closes l.done
ShutdownReturn ==
    /\ \E i \in 1..Len(lsn) :
          /\ lsn[i].pc = "drain"
          /\ lsn' = [lsn EXCEPT ![i].pc = "exit", ![i].done = TRUE,
                                ![i].timedOut = (lsn[i].conns > 0)]
    /\ UNCHANGED <<impl, mainVars, selVars, lifeVars, headerVars, callVars, handlerVars, mgmtVars, bootVars, pmListeners, pmCall>>

PortsInit ==
    /\ impl = "gke"
    /\ cluster = [n \in Names |-> "True"]
    /\ DiscoveryNew
    /\ SelIdle
    /\ HandlerIdle
    /\ NewPortManager
    /\ MgmtIdle
    /\ BootIdle
    /\ LifeIdle
    /\ CallIdle
    /\ HeaderIdle

PortsNext ==
    \/ StartPort
    \/ StopPort
    \/ StopPortDone
    \/ StopAll
    \/ StopAllClose
    \/ StopAllDone
    \/ PortCallReturn
    \/ ListenAndServe
    \/ Accept
    \/ ConnDone
    \/ Shutdown
    \/ ShutdownReturn

SpecPorts == PortsInit /\ [][PortsNext]_vars

----------------------------------------------------------------------------
(* SpecMgmt: one request on the management port, served by the handler of   *)
(* createServiceHandler, while calls of the node discovery hold d.mutex     *)

StatusNotFound == 404

\* the servers: Server (GKE), GenericServer and EKSServer with a handler
\* that tests the path itself, GenericServer and EKSServer with the routes
\* registered in the ServeMux
MgmtServers == {"Server", "GenericServer", "EKSServer", "GenericServerMux", "EKSServerMux"}

MgmtPaths == {"/", "/health", "/info", "/favicon.ico", "/foo", "/api/v1/nodes"}

\* the node discovery each server is built with
discoveryOf(server) ==
    IF server = "Server" THEN "gke"
    ELSE IF server \in {"EKSServer", "EKSServerMux"} THEN "eks"
    ELSE "generic"

\* the function that createServiceHandler has serve a path
route(server, path) ==
    IF server = "Server"
    THEN IF path = "/" THEN "handleHomepage"
         ELSE IF path = "/favicon.ico" THEN "favicon"
         ELSE IF path = "/health" THEN "handleHealth"
         ELSE "notFound"
    ELSE IF server \in {"GenericServer", "EKSServer"}
    THEN IF path = "/" THEN "handleHomepage"
         ELSE IF path = "/health" THEN "handleHealth"
         ELSE "notFound"
    ELSE IF server = "GenericServerMux"
    THEN IF path = "/info" THEN "handleInfo" ELSE "handleHomepage"
    ELSE IF path = "/info" THEN "handleInfo"
         ELSE IF path = "/health" THEN "healthStatic"
         ELSE "handleHomepage"

\* the function reads the node discovery under d.mutex.RLock
\* (GetCurrentNodeName, GetAllNodes)
readsDiscovery(fn) == fn \in {"handleHomepage", "handleHealth"}

\* the status code the function writes
statusOf(fn) == IF fn = "notFound" THEN StatusNotFound ELSE StatusOK

\* GetCurrentNodeIP (discoverNodeIP) and handleNodeFailure (performFailover)
\* of the discovery keep d.mutex locked while Nodes().List is in flight
locksDuringList(im) == im \in {"gke", "eks"}

MgmtInit ==
    /\ mServer \in MgmtServers
    /\ impl = discoveryOf(mServer)
    /\ cluster = [n \in Names |-> "True"]
    /\ DiscoveryNew
    /\ SelIdle
    /\ HandlerIdle
    /\ NewPortManager
    /\ BootIdle
    /\ LifeIdle
    /\ CallIdle
    /\ HeaderIdle
    /\ mPath \in MgmtPaths
    /\ mPc = "recv"
    /\ mStatus = 0
    /\ mRpc = FALSE
    /\ mUpstream = 0
    /\ dLock = "none"

\* the function runs to its end: handleHomepage calls GetAllNodes, which
\* lists the nodes of the cluster unless its cache is fresh
MgmtRespond(fn) ==
    /\ mPc' = "done"
    /\ mStatus' = statusOf(fn)
    /\ \E listed \in BOOLEAN :
          /\ listed => fn = "handleHomepage"
          /\ mRpc' = listed
    /\ UNCHANGED <<mServer, mPath, mUpstream, dLock>>

\* the handler gets the request: it answers, or waits for d.mutex
MgmtServe ==
    /\ mPc = "recv"
    /\ LET fn == route(mServer, mPath)
       IN IF readsDiscovery(fn) /\ dLock # "none"
          THEN /\ mPc' = "blocked"
               /\ UNCHANGED <<mServer, mPath, mStatus, mRpc, mUpstream, dLock>>
          ELSE MgmtRespond(fn)
    /\ UNCHANGED <<impl, mainVars, selVars, lifeVars, headerVars, callVars, handlerVars, portVars, bootVars>>

\* d.mutex is free again: the handler goes on
MgmtResume ==
    /\ mPc = "blocked"
    /\ dLock = "none"
    /\ MgmtRespond(route(mServer, mPath))
    /\ UNCHANGED <<impl, mainVars, selVars, lifeVars, headerVars, callVars, handlerVars, portVars, bootVars>>

\* a request on a proxy port (GetCurrentNodeIP) or the monitor
\* (handleNodeFailure) locks d.mutex and lists the nodes of the cluster
LockedList ==
    /\ dLock = "none"
    /\ locksDuringList(impl)
    /\ dLock' \in {"discoverNodeIP", "performFailover"}
    /\ UNCHANGED <<impl, mainVars, selVars, lifeVars, headerVars, callVars, handlerVars, portVars, bootVars, mServer, mPath, mPc,
                   mStatus, mRpc, mUpstream>>

\* Nodes().List returns, or its context is over: d.mutex is unlocked
LockedListReturn ==
    /\ dLock # "none"
    /\ dLock' = "none"
    /\ UNCHANGED <<impl, mainVars, selVars, lifeVars, headerVars, callVars, handlerVars, portVars, bootVars, mServer, mPath, mPc,
                   mStatus, mRpc, mUpstream>>

MgmtNext ==
    \/ MgmtServe
    \/ MgmtResume
    \/ LockedList
    \/ LockedListReturn

SpecMgmt == MgmtInit /\ [][MgmtNext]_vars

----------------------------------------------------------------------------
(* SpecBoot: Run of Server (GKE), GenericServer and EKSServer, from          *)
(* collectServerInfo to the return after the signal                          *)

BootServers == {"Server", "GenericServer", "EKSServer"}

Namespaces == {"", "default"}

ServicePorts == {80, 30001}

BootPorts == {80, 30001, 30002, 30003}

MaxServices == 2

\* a port of a service
ServicePort(nodePort, protocol) == [NodePort |-> nodePort, Protocol |-> protocol]

\* the services a cluster may hold; a node port is allocated once per
\* protocol, so the two ports of dns and of sip share theirs
ServiceUniverse ==
    {[Name |-> "web", Namespace |-> "default", Type |-> "NodePort",
      Ports |-> <<ServicePort(30001, "TCP")>>],
     [Name |-> "db", Namespace |-> "default", Type |-> "ClusterIP",
      Ports |-> <<ServicePort(0, "TCP")>>],
     [Name |-> "dns", Namespace |-> "kube-system", Type |-> "NodePort",
      Ports |-> <<ServicePort(30002, "UDP"), ServicePort(30002, "TCP")>>],
     [Name |-> "sip", Namespace |-> "default", Type |-> "NodePort",
      Ports |-> <<ServicePort(30003, "UDP"), ServicePort(30003, "TCP")>>]}

\* the lists of services the API may return: every service once
ServiceLists ==
    UNION { { l \in [1..n -> ServiceUniverse] : \A i, j \in 1..n : i # j => l[i] # l[j] } :
              n \in 0..MaxServices }

\* the services discovery each server is built with
servicesDiscoveryOf(server) ==
    IF server = "Server" THEN "NodePortDiscovery"
    ELSE IF server = "GenericServer" THEN "GenericNodePortDiscovery"
    ELSE "EKSNodePortDiscovery"

\* CoreV1().Services(namespace).List: the services of the namespace, of all
\* namespaces when the namespace is ""
ServicesList(cl, namespace) ==
    IF namespace = "" THEN cl
    ELSE SelectSeq(cl, LAMBDA svc : svc.Namespace = namespace)

ServiceInfo(name, namespace, port) ==
    [Name |-> name, Namespace |-> namespace, NodePort |-> port.NodePort,
     Protocol |-> port.Protocol]

\* the inner loop of DiscoverServices: a ServiceInfo for every port of the
\* service whose node port is not 0
portInfos(svc) ==
    LET ports == SelectSeq(svc.Ports, LAMBDA port : port.NodePort # 0)
    IN [i \in 1..Len(ports) |-> ServiceInfo(svc.Name, svc.Namespace, ports[i])]

RECURSIVE serviceInfos(_)
\* the outer loop of DiscoverServices: the ServiceInfo of the ports of every
\* service of type NodePort, in the order of the list
serviceInfos(items) ==
    IF items = <<>> THEN <<>>
    ELSE (IF Head(items).Type = "NodePort" THEN portInfos(Head(items)) ELSE <<>>)
         \o serviceInfos(Tail(items))

\* the mock services of EKSNodePortDiscovery.DiscoverServices
mockServices == <<ServiceInfo("test-service", "default", ServicePort(30001, "TCP"))>>

\* a result of DiscoverServices: the services, the error, whether the
\* services were listed and in which namespace
Discovered(services, err, listed, namespace) ==
    [services |-> services, err |-> err, listed |-> listed, namespace |-> namespace]

\* GenericNodePortDiscovery.DiscoverServices: namespace == ""
namespaceRequired(namespace) == namespace = ""

\* DiscoverServices of a services discovery; listOk: Services().List
\* returns no error
DiscoverServices(discovery, namespace, cl, listOk) ==
    IF discovery = "EKSNodePortDiscovery"
    THEN Discovered(mockServices, "", FALSE, "")
    ELSE IF discovery = "NodePortDiscovery"
    THEN IF listOk
         THEN Discovered(serviceInfos(ServicesList(cl, "")), "", TRUE, "")
         ELSE Discovered(<<>>, "failed to list services", TRUE, "")
    ELSE IF namespaceRequired(namespace)
    THEN Discovered(<<>>, "NAMESPACE environment variable is required", FALSE, "")
    ELSE IF listOk
         THEN Discovered(serviceInfos(ServicesList(cl, namespace)), "", TRUE, namespace)
         ELSE Discovered(<<>>, "failed to list services", TRUE, namespace)

\* DiscoverNodePorts: the node port of every service discovered
nodePorts(services) == [i \in 1..Len(services) |-> services[i].NodePort]

\* the loop of Run leaves the port out: only Server tests for its service port
skipsPort(server, port, servicePort) == server = "Server" /\ port = servicePort

BootInit ==
    /\ impl = "gke"
    /\ cluster = [n \in Names |-> "True"]
    /\ DiscoveryNew
    /\ SelIdle
    /\ HandlerIdle
    /\ MgmtIdle
    /\ LifeIdle
    /\ CallIdle
    /\ HeaderIdle
    /\ pmListeners = [p \in BootPorts |-> 0]
    /\ lsn = <<>>
    /\ pmCall = NoCall
    /\ bServer \in BootServers
    /\ bNamespace \in Namespaces
    /\ bServicePort \in ServicePorts
    /\ bCluster \in ServiceLists
    /\ bPc = "new"
    /\ bExit = "none"
    /\ bPorts = <<>>
    /\ bIdx = 0
    /\ bHandlers = <<>>
    /\ bDiscover = NoDiscover
    /\ bSelect = <<>>

\* PortManager.StartPort(port, handler) as Run calls it: its error is logged
BootStartPort(port, handler) ==
    IF exists(pmListeners, port)
    THEN UNCHANGED <<pmListeners, lsn, bHandlers>>
    ELSE /\ lsn' = Append(lsn, newListener(port))
         /\ pmListeners' = [pmListeners EXCEPT ![port] = Len(lsn) + 1]
         /\ bHandlers' = Append(bHandlers, handler)

\* Run fails: main ends the process with log.Fatalf
BootFail ==
    /\ bPc' = "exited"
    /\ bExit' = "error"

\* collectServerInfo reads the nodes through getAllNodeIPs, which calls
\* GetCurrentNodeIP: Server does, GenericServer and EKSServer call GetAllNodes
selectsInCollect(server) == server = "Server"

\* the result a GetCurrentNodeIP of Run adds to those before it
selected(results, ok) == Append(results, IF ok THEN "ok" ELSE "failed")

\* Run: collectServerInfo, which calls DiscoverServices and then reads the
\* nodes of the cluster; either error is returned to Run, which returns it
CollectServerInfo ==
    /\ bPc = "new"
    /\ \E listOk \in BOOLEAN, nodesOk \in BOOLEAN :
          LET r == DiscoverServices(servicesDiscoveryOf(bServer), bNamespace, bCluster, listOk)
          IN /\ bDiscover' = r
             /\ (r.err # "" => nodesOk)
             /\ bSelect' = IF r.err = "" /\ selectsInCollect(bServer)
                           THEN selected(bSelect, nodesOk)
                           ELSE bSelect
             /\ IF r.err # "" \/ ~nodesOk
                THEN BootFail
                ELSE bPc' = "info" /\ UNCHANGED bExit
    /\ UNCHANGED <<impl, mainVars, selVars, lifeVars, headerVars, callVars, handlerVars, mgmtVars, portVars, bServer,
                   bNamespace, bServicePort, bCluster, bPorts, bIdx, bHandlers>>

\* Run: StartPort(s.servicePort, serviceHandler)
StartServicePort ==
    /\ bPc = "info"
    /\ BootStartPort(bServicePort, "service")
    /\ bPc' = "mgmt"
    /\ UNCHANGED <<impl, mainVars, selVars, lifeVars, headerVars, callVars, handlerVars, mgmtVars, pmCall, bServer, bSelect,
                   bNamespace, bServicePort, bCluster, bExit, bPorts, bIdx, bDiscover>>

\* the GetCurrentNodeIP of Run can fail: not when collectServerInfo has just
\* stored the address it returns, which is then served from the cache
mayFailInRun(results) == results = <<>>

\* Run: the GetCurrentNodeIP whose error is only logged,
\* StartHealthMonitoring, then DiscoverNodePorts
DiscoverNodePorts ==
    /\ bPc = "mgmt"
    /\ \E listOk \in BOOLEAN, selOk \in BOOLEAN :
          LET r == DiscoverServices(servicesDiscoveryOf(bServer), bNamespace, bCluster, listOk)
          IN /\ (~selOk => mayFailInRun(bSelect))
             /\ bSelect' = selected(bSelect, selOk)
             /\ bDiscover' = r
             /\ IF r.err # ""
                THEN BootFail /\ UNCHANGED <<bPorts, bIdx>>
                ELSE /\ bPorts' = nodePorts(r.services)
                     /\ bIdx' = 1
                     /\ bPc' = "ports"
                     /\ UNCHANGED bExit
    /\ UNCHANGED <<impl, mainVars, selVars, lifeVars, headerVars, callVars, handlerVars, mgmtVars, portVars, bServer,
                   bNamespace, bServicePort, bCluster, bHandlers>>

\* Run: one turn of the loop over the discovered ports
StartProxyPort ==
    /\ bPc = "ports"
    /\ bIdx <= Len(bPorts)
    /\ IF skipsPort(bServer, bPorts[bIdx], bServicePort)
       THEN UNCHANGED <<pmListeners, lsn, bHandlers>>
       ELSE BootStartPort(bPorts[bIdx], "proxy")
    /\ bIdx' = bIdx + 1
    /\ UNCHANGED <<impl, mainVars, selVars, lifeVars, headerVars, callVars, handlerVars, mgmtVars, pmCall, bServer, bSelect,
                   bNamespace, bServicePort, bCluster, bPc, bExit, bPorts, bDiscover>>

\* Run: the loop is over, Run waits for a signal
WaitForSignal ==
    /\ bPc = "ports"
    /\ bIdx > Len(bPorts)
    /\ bPc' = "serving"
    /\ UNCHANGED <<impl, mainVars, selVars, lifeVars, headerVars, callVars, handlerVars, mgmtVars, portVars, bServer, bSelect,
                   bNamespace, bServicePort, bCluster, bExit, bPorts, bIdx, bHandlers,
                   bDiscover>>

\* Run: the signal arrives; StopHealthMonitoring, StopAll, return nil
SignalShutdown ==
    /\ bPc = "serving"
    /\ lsn' = [i \in 1..Len(lsn) |->
                  [lsn[i] EXCEPT !.shutdown = TRUE, !.done = TRUE, !.pc = "exit",
                                 !.server = "closed"]]
    /\ pmListeners' = [p \in BootPorts |-> 0]
    /\ bPc' = "exited"
    /\ bExit' = "ok"
    /\ UNCHANGED <<impl, mainVars, selVars, lifeVars, headerVars, callVars, handlerVars, mgmtVars, pmCall, bServer, bSelect,
                   bNamespace, bServicePort, bCluster, bPorts, bIdx, bHandlers, bDiscover>>

BootNext ==
    \/ CollectServerInfo
    \/ StartServicePort
    \/ DiscoverNodePorts
    \/ StartProxyPort
    \/ WaitForSignal
    \/ SignalShutdown

SpecBoot == BootInit /\ [][BootNext]_vars

----------------------------------------------------------------------------
(* SpecMonitor: StartHealthMonitoring, StopHealthMonitoring and the         *)
(* healthMonitorLoop goroutines, with the requests of performHealthCheck    *)
(* and performFailover in flight                                            *)

MaxLoops == 2

MaxStops == 1

\* a healthMonitorLoop goroutine: where it is, whether its ticker holds a
\* tick, and the node it probes
Loop(pc, tick, node) == [pc |-> pc, tick |-> tick, node |-> node]

\* StartHealthMonitoring starts a goroutine: always in GKE, only when
\* d.monitoring is not set in EKS and Generic
startsAgain(im, flag) == im = "gke" \/ ~flag

\* the context of the Nodes().List of performFailover is the monitor's
\* (d.ctx in GKE) and not context.Background()
failoverCancellable(im) == im = "gke"

\* d.mutex is held by a handleNodeFailure whose performFailover lists the nodes
Locked == locksDuringList(impl) /\ \E i \in 1..Len(loops) : loops[i].pc = "list"

MonInit ==
    /\ impl \in Impls
    /\ cluster \in ClusterStates
    /\ DiscoveryNew
    /\ SelIdle
    /\ HandlerIdle
    /\ NewPortManager
    /\ MgmtIdle
    /\ BootIdle
    /\ LifeIdle
    /\ CallIdle
    /\ HeaderIdle

\* the first GetCurrentNodeIP of Run, before StartHealthMonitoring
InitialSelect ==
    /\ loops = <<>>
    /\ stopCalls = 0
    /\ \/ GetCurrentNodeIP_GKE
       \/ GetCurrentNodeIP_EKS
       \/ GetCurrentNodeIP_Generic

\* Run logs the result of the first GetCurrentNodeIP and goes on
InitialSelectDone ==
    /\ reqPc = "got"
    /\ reqPc' = "idle"
    /\ reqResult' = NoResult
    /\ UNCHANGED <<impl, cluster, discVars, monVars, forward, histVars, sideVars>>

\* StartHealthMonitoring, called any number of times before
\* StopHealthMonitoring
StartLoop ==
    /\ Len(loops) < MaxLoops
    /\ stopCalls = 0
    /\ reqPc = "idle"
    /\ ~Locked
    /\ startsAgain(impl, monitoring)
    /\ monitoring' = (impl # "gke")
    /\ loops' = Append(loops, Loop("wait", FALSE, NoName))
    /\ UNCHANGED <<impl, cluster, currentNodeName, currentNodeIP, failureCount,
                   sinceLastCheck, sinceCacheTime, cachedNodes, tickPending, monVars,
                   reqVars, histVars, selVars, handlerVars, portVars, mgmtVars, bootVars, headerVars, callVars,
                   cancelled, stopCalls, lastFailover>>

\* StopHealthMonitoring, called at any time: d.cancel(), in EKS and Generic
\* only when d.monitoring is set
StopHealthMonitoring ==
    /\ ~Locked
    /\ stopCalls' = Min(stopCalls + 1, MaxStops)
    /\ IF impl = "gke" \/ monitoring
       THEN cancelled' = TRUE /\ monitoring' = FALSE
       ELSE UNCHANGED <<cancelled, monitoring>>
    /\ UNCHANGED <<impl, cluster, currentNodeName, currentNodeIP, failureCount,
                   sinceLastCheck, sinceCacheTime, cachedNodes, tickPending, monVars,
                   reqVars, histVars, selVars, handlerVars, portVars, mgmtVars, bootVars, headerVars, callVars,
                   loops, lastFailover>>

\* 15 s pass: the ticker of every loop holds a tick
TimePasses ==
    /\ \E i \in 1..Len(loops) : loops[i].pc # "exit" /\ ~loops[i].tick
    /\ loops' = [i \in 1..Len(loops) |->
                   IF loops[i].pc = "exit" THEN loops[i] ELSE [loops[i] EXCEPT !.tick = TRUE]]
    /\ sinceLastCheck' = Min(sinceLastCheck + 1, CheckValidTicks)
    /\ sinceCacheTime' = Min(sinceCacheTime + 1, CacheTTLTicks)
    /\ UNCHANGED <<impl, cluster, currentNodeName, currentNodeIP, failureCount,
                   cachedNodes, monitoring, tickPending, monVars, reqVars, histVars,
                   selVars, handlerVars, portVars, mgmtVars, bootVars, headerVars, callVars, cancelled,
                   stopCalls, lastFailover>>

\* healthMonitorLoop: the select takes the tick (also when the context is
\* done: select picks any ready case); performHealthCheck returns at once
\* when no node is selected and else calls Nodes().Get
LoopTick(i) ==
    /\ loops[i].pc = "wait"
    /\ loops[i].tick
    /\ ~Locked
    /\ loops' = [loops EXCEPT ![i] =
                   IF currentNodeName = NoName
                   THEN Loop("wait", FALSE, NoName)
                   ELSE Loop("get", FALSE, currentNodeName)]
    /\ UNCHANGED <<impl, cluster, discVars, monVars, reqVars, histVars, selVars,
                   handlerVars, portVars, mgmtVars, bootVars, headerVars, callVars, cancelled, stopCalls,
                   lastFailover>>

\* healthMonitorLoop: the select takes the Done of the monitor context
LoopDone(i) ==
    /\ loops[i].pc = "wait"
    /\ cancelled
    /\ loops' = [loops EXCEPT ![i] = Loop("exit", FALSE, NoName)]
    /\ UNCHANGED <<impl, cluster, discVars, monVars, reqVars, histVars, selVars,
                   handlerVars, portVars, mgmtVars, bootVars, headerVars, callVars, cancelled, stopCalls,
                   lastFailover>>

\* performHealthCheck from the return of Nodes().Get, whose context is the
\* monitor's: the reset of failureCount, or handleNodeFailure up to the
\* Nodes().List of performFailover
ProbeReturn(i) ==
    /\ loops[i].pc = "get"
    /\ ~Locked
    /\ \E r \in IF cancelled THEN {"err"} ELSE GetOutcomes(loops[i].node) :
         LET cache == IF impl = "generic" /\ r # "err"
                      THEN markCached(cachedNodes, loops[i].node,
                               IF r = "ready" THEN NodeHealthy ELSE NodeUnhealthy)
                      ELSE cachedNodes
         IN /\ (r # "ready") => failureCount < MaxFailures
            /\ cachedNodes' = cache
            /\ sinceLastCheck' = IF impl = "generic" /\ r # "err" THEN 0 ELSE sinceLastCheck
            /\ IF r = "ready"
               THEN /\ failureCount' = IF impl = "generic" THEN recovered(failureCount) ELSE 0
                    /\ loops' = [loops EXCEPT ![i] = Loop("wait", @.tick, NoName)]
                    /\ lastFailover' = ""
                    /\ UNCHANGED <<currentNodeIP, sinceCacheTime>>
               ELSE /\ failureCount' = failureCount + 1
                    /\ UNCHANGED lastFailover
                    /\ IF failureCount + 1 < FailureThreshold
                       THEN /\ loops' = [loops EXCEPT ![i] = Loop("wait", @.tick, NoName)]
                            /\ UNCHANGED <<currentNodeIP, sinceCacheTime>>
                       ELSE /\ loops' = [loops EXCEPT ![i] = Loop("list", @.tick, @.node)]
                            /\ currentNodeIP' = IF impl = "gke" THEN NoIP ELSE currentNodeIP
                            /\ sinceCacheTime' = IF impl = "gke" THEN CacheTTLTicks
                                                 ELSE sinceCacheTime
    /\ UNCHANGED <<impl, cluster, currentNodeName, monitoring, tickPending, monVars,
                   reqVars, histVars, selVars, handlerVars, portVars, mgmtVars, bootVars, headerVars, callVars,
                   cancelled, stopCalls>>

\* what getAllNodesWithMetadata may return to performFailover
failoverLists ==
    IF impl = "generic"
    THEN genericGetAllNodes(cachedNodes)
    ELSE (IF failoverCancellable(impl) /\ cancelled THEN {}
          ELSE { [ok |-> TRUE, rpc |-> TRUE, nodes |-> l] : l \in fetchedLists(impl, ListNodes) })
         \cup {[ok |-> FALSE, rpc |-> TRUE, nodes |-> <<>>]}

\* performFailover from the return of getAllNodesWithMetadata, and the rest
\* of handleNodeFailure
FailoverReturn(i) ==
    /\ loops[i].pc = "list"
    /\ \E got \in failoverLists :
         LET c == IF ~got.ok THEN Nil
                  ELSE IF impl = "generic" THEN genericCandidate(got.nodes, currentNodeName)
                  ELSE firstCandidate(got.nodes, currentNodeName)
         IN /\ loops' = [loops EXCEPT ![i] =
                           Loop("wait", @.tick, NoName)]
            /\ lastFailover' = IF ~got.ok THEN "error" ELSE IF c = Nil THEN "none"
                               ELSE "switched"
            /\ cachedNodes' = IF impl = "generic" /\ got.ok /\ got.rpc THEN got.nodes
                              ELSE cachedNodes
            /\ IF c = Nil
               THEN /\ failureCount' = IF impl = "gke" THEN 0 ELSE failureCount
                    /\ sinceCacheTime' = IF impl = "generic" /\ got.ok /\ got.rpc THEN 0
                                         ELSE sinceCacheTime
                    /\ UNCHANGED <<currentNodeName, currentNodeIP, sinceLastCheck>>
               ELSE /\ currentNodeName' = c.Name
                    /\ currentNodeIP' = c.IP
                    /\ failureCount' = 0
                    /\ sinceCacheTime' = IF impl = "gke" \/ (impl = "generic" /\ got.rpc)
                                         THEN 0 ELSE sinceCacheTime
                    /\ sinceLastCheck' = IF impl = "gke" THEN sinceLastCheck ELSE 0
    /\ UNCHANGED <<impl, cluster, monitoring, tickPending, monVars, reqVars, histVars,
                   selVars, handlerVars, portVars, mgmtVars, bootVars, headerVars, callVars, cancelled,
                   stopCalls>>

\* Run after the signal: s.portManager.StopAll() is called once
\* s.nodeIPDiscovery.StopHealthMonitoring() has returned
RunStopAll ==
    /\ stopCalls >= 1
    /\ StopAll

MonNext ==
    \/ InitialSelect
    \/ InitialSelectDone
    \/ StartLoop
    \/ StopHealthMonitoring
    \/ TimePasses
    \/ EnvChange
    \/ \E i \in 1..Len(loops) : LoopTick(i)
    \/ \E i \in 1..Len(loops) : LoopDone(i)
    \/ \E i \in 1..Len(loops) : ProbeReturn(i)
    \/ \E i \in 1..Len(loops) : FailoverReturn(i)
    \/ RunStopAll
    \/ StopAllDone

SpecMonitor == MonInit /\ [][MonNext]_vars

----------------------------------------------------------------------------
(* SpecHeaders: the copy of the request headers in proxy.Handler.ServeHTTP *)

UpperLetters == <<"A", "B", "C", "D", "E", "F", "G", "H", "I", "J", "K", "L", "M", "N", "O", "P", "Q", "R", "S", "T", "U", "V", "W", "X", "Y", "Z">>
LowerLetters == <<"a", "b", "c", "d", "e", "f", "g", "h", "i", "j", "k", "l", "m", "n", "o", "p", "q", "r", "s", "t", "u", "v", "w", "x", "y", "z">>

\* unicode.ToLower on one character
lowerChar(c) ==
    IF \E i \in 1..Len(UpperLetters) : UpperLetters[i] = c
    THEN LowerLetters[CHOOSE i \in 1..Len(UpperLetters) : UpperLetters[i] = c]
    ELSE c

\* unicode.ToUpper on one character
upperChar(c) ==
    IF \E i \in 1..Len(LowerLetters) : LowerLetters[i] = c
    THEN UpperLetters[CHOOSE i \in 1..Len(LowerLetters) : LowerLetters[i] = c]
    ELSE c

\* the key left in the case it came in
ToLower_Unchanged(key) == key

\* strings.ToLower
ToLower(key) == [i \in 1..Len(key) |-> lowerChar(key[i])]

\* textproto.CanonicalMIMEHeaderKey, which Header.Add applies to the key:
\* the first letter and every letter after a hyphen in upper case, the
\* others in lower case
CanonicalMIMEHeaderKey(key) ==
    [i \in 1..Len(key) |->
        IF i = 1 \/ key[i - 1] = "-" THEN upperChar(key[i]) ELSE lowerChar(key[i])]

\* the names shouldSkipHeader compares the lowered key with
SkippedNames ==
    {<<"c", "o", "n", "n", "e", "c", "t", "i", "o", "n">>,
     <<"u", "p", "g", "r", "a", "d", "e">>,
     <<"p", "r", "o", "x", "y", "-", "c", "o", "n", "n", "e", "c", "t", "i", "o", "n">>,
     <<"p", "r", "o", "x", "y", "-", "a", "u", "t", "h", "e", "n", "t", "i", "c", "a", "t", "e">>,
     <<"p", "r", "o", "x", "y", "-", "a", "u", "t", "h", "o", "r", "i", "z", "a", "t", "i", "o", "n">>,
     <<"t", "e">>,
     <<"t", "r", "a", "i", "l", "e", "r", "s">>,
     <<"t", "r", "a", "n", "s", "f", "e", "r", "-", "e", "n", "c", "o", "d", "i", "n", "g">>}

\* shouldSkipHeader
shouldSkipHeader(key) == ToLower(key) \in SkippedNames

\* names of other headers
OtherNames ==
    {<<"a", "c", "c", "e", "p", "t">>,
     <<"x", "-", "t", "e">>,
     <<"k", "e", "e", "p", "-", "a", "l", "i", "v", "e">>}

\* a name in lower case, in upper case and in canonical form
Spellings(name) ==
    {name, [i \in 1..Len(name) |-> upperChar(name[i])], CanonicalMIMEHeaderKey(name)}

HeaderKeys == UNION { Spellings(name) : name \in SkippedNames \cup OtherNames }

HeaderValues == {<<"1">>, <<"1", "2">>}

MaxHeaders == 2

\* the entries of r.Header in the order of one iteration: the keys differ
Headers ==
    UNION { { h \in [1..n -> [key : HeaderKeys, values : HeaderValues]] :
                \A i, j \in 1..n : i # j => h[i].key # h[j].key } : n \in 0..MaxHeaders }

\* Header.Add(key, value): the value is appended to the values of the
\* canonical key
Add(header, key, value) ==
    LET k == CanonicalMIMEHeaderKey(key)
    IN IF \E i \in 1..Len(header) : header[i].key = k
       THEN [i \in 1..Len(header) |->
               IF header[i].key = k
               THEN [header[i] EXCEPT !.values = Append(@, value)] ELSE header[i]]
       ELSE Append(header, [key |-> k, values |-> <<value>>])

RECURSIVE AddAll(_, _, _)
\* the inner loop of the copy: every value of one key is added
AddAll(header, key, vals) ==
    IF vals = <<>> THEN header
    ELSE AddAll(Add(header, key, Head(vals)), key, Tail(vals))

RECURSIVE copyHeaders(_, _)
\* the loop over r.Header: the values of every key that is not skipped are
\* added to proxyReq.Header
copyHeaders(in, out) ==
    IF in = <<>> THEN out
    ELSE copyHeaders(Tail(in),
                     IF shouldSkipHeader(Head(in).key) THEN out
                     ELSE AddAll(out, Head(in).key, Head(in).values))

HeadersInit ==
    /\ impl = "gke"
    /\ cluster = [n \in Names |-> "True"]
    /\ DiscoveryNew
    /\ SelIdle
    /\ HandlerIdle
    /\ NewPortManager
    /\ MgmtIdle
    /\ BootIdle
    /\ LifeIdle
    /\ CallIdle
    /\ rHeader \in Headers
    /\ proxyHeader = <<>>
    /\ hdrPc = "in"

\* ServeHTTP from NewRequestWithContext to client.Do: the headers are copied
CopyHeaders ==
    /\ hdrPc = "in"
    /\ proxyHeader' = copyHeaders(rHeader, <<>>)
    /\ hdrPc' = "out"
    /\ UNCHANGED <<impl, mainVars, selVars, handlerVars, portVars, mgmtVars, bootVars,
                   lifeVars, callVars, rHeader>>

HeadersNext == CopyHeaders

SpecHeaders == HeadersInit /\ [][HeadersNext]_vars

----------------------------------------------------------------------------
(* SpecCalls: GetCurrentNodeIP, GetAllNodes and performHealthCheck called   *)
(* from concurrent goroutines.  A step is a section of code that runs with  *)
(* d.mutex locked, or the return of a request to the cluster API together   *)
(* with the locked section that follows it.                                  *)

\* the earlier revision of GenericNodeDiscovery, whose discoverNodeIP and
\* performHealthCheck keep d.mutex locked until they return
GenericV1 == "generic_v1"

Revisions == Impls \cup {GenericV1}

isGeneric(im) == im \in {"generic", GenericV1}

\* the implementation a revision is a revision of
kind(im) == IF isGeneric(im) THEN "generic" ELSE im

\* the fields of the discovery that the calls write
selection == <<currentNodeName, currentNodeIP, failureCount, sinceLastCheck,
               sinceCacheTime, cachedNodes>>

\* what no call writes
callsFrame == <<impl, cluster, monitoring, monVars, reqVars, histVars, selVars,
                handlerVars, portVars, mgmtVars, bootVars, lifeVars, headerVars>>

Set(name, ip, fc, lastCheck, cacheTime, nodes) ==
    /\ currentNodeName' = name
    /\ currentNodeIP' = ip
    /\ failureCount' = fc
    /\ sinceLastCheck' = lastCheck
    /\ sinceCacheTime' = cacheTime
    /\ cachedNodes' = nodes

\* the test of the fast path of GetCurrentNodeIP
fastValid(im) ==
    /\ currentNodeIP # NoIP
    /\ IF im = "gke" THEN sinceCacheTime < CacheTTLTicks
       ELSE sinceLastCheck < CheckValidTicks

\* the second test of GKE GetCurrentNodeIP and the test of Generic discoverNodeIP
cachedIPValid == currentNodeIP # NoIP /\ sinceCacheTime < CacheTTLTicks

\* the test of GetAllNodes and of Generic getAllNodesWithMetadata
cacheFresh == Len(cachedNodes) > 0 /\ sinceCacheTime < CacheTTLTicks

\* d.mutex can be locked by the task, for reading or for writing: no other
\* task holds it (sync.RWMutex is not reentrant: nor does the task itself)
Lockable == dmu = "none"

\* a call that returns
Done(c, ip, err) == [c EXCEPT !.pc = "done", !.ip = ip, !.err = err, !.nodes = <<>>]

\* another call has selected a node: the calls of GetCurrentNodeIP that have
\* found the IP expired and have not sent their Nodes().List yet
selectedBy(cs, t) ==
    [u \in Tasks |->
        IF u # t /\ cs[u].op = "GetCurrentNodeIP" /\ cs[u].pc \in {"lock", "cache"}
        THEN [cs[u] EXCEPT !.stale = TRUE] ELSE cs[u]]

\* a failover has left the node old: the calls of GetCurrentNodeIP that hold
\* a node list and have not selected from it yet
failedAway(cs, old) ==
    [u \in Tasks |->
        IF cs[u].op = "GetCurrentNodeIP" /\ cs[u].pc = "select"
        THEN [cs[u] EXCEPT !.avoid = old] ELSE cs[u]]

\* where getAllNodesWithMetadata returns to
afterNodes(op) ==
    IF op = "GetCurrentNodeIP" THEN "select"
    ELSE IF op = "GetAllNodes" THEN "done"
    ELSE "switch"

CallsInit ==
    /\ impl \in Revisions
    /\ cluster \in ClusterStates
    /\ DiscoveryNew
    /\ SelIdle
    /\ HandlerIdle
    /\ ExtraIdle

\* the task may start a call: of two requests served at the same time,
\* r2 is the one that came second
MayCall(t) == calls[t].pc = "idle" /\ (t = "r2" => calls["r1"].pc # "idle")

\* GetCurrentNodeIP up to the end of its fast path
CallGetCurrentNodeIP(t) ==
    /\ MayCall(t)
    /\ Lockable
    /\ calls' = [calls EXCEPT ![t] =
                    IF fastValid(impl)
                    THEN Done([NoTask EXCEPT !.op = "GetCurrentNodeIP"], currentNodeIP, FALSE)
                    ELSE [NoTask EXCEPT !.op = "GetCurrentNodeIP", !.pc = "lock"]]
    /\ UNCHANGED <<selection, dmu, preFailure, tickPending, callsFrame>>

\* d.mutex.Lock() of GKE GetCurrentNodeIP and of discoverNodeIP, up to the
\* call of Nodes().List or of Generic getAllNodesWithMetadata
discoverLock(t) ==
    /\ calls[t].pc = "lock"
    /\ Lockable
    /\ IF impl = "eks"
       THEN /\ calls' = [calls EXCEPT ![t].pc = "list", ![t].listed = TRUE]
            /\ dmu' = t
            /\ UNCHANGED selection
       ELSE IF cachedIPValid
       THEN /\ calls' = [calls EXCEPT ![t] = Done(@, currentNodeIP, FALSE)]
            /\ sinceLastCheck' = IF isGeneric(impl) THEN 0 ELSE sinceLastCheck
            /\ UNCHANGED <<currentNodeName, currentNodeIP, failureCount, sinceCacheTime,
                           cachedNodes, dmu>>
       ELSE IF impl = "gke"
       THEN /\ calls' = [calls EXCEPT ![t].pc = "list", ![t].listed = TRUE]
            /\ dmu' = t
            /\ UNCHANGED selection
       ELSE /\ calls' = [calls EXCEPT ![t].pc = "cache"]
            /\ dmu' = IF impl = GenericV1 THEN t ELSE "none"
            /\ UNCHANGED selection
    /\ UNCHANGED <<preFailure, tickPending, callsFrame>>

\* Generic getAllNodesWithMetadata up to the call of Nodes().List: the
\* cached list under d.mutex.RLock() while it is fresh
cacheLookup(t) ==
    /\ calls[t].pc = "cache"
    /\ Lockable
    /\ LET c == calls[t]
       IN calls' = [calls EXCEPT ![t] =
                       IF cacheFresh
                       THEN IF c.op = "GetAllNodes"
                            THEN [Done(c, NoIP, FALSE) EXCEPT !.nodes = cachedNodes]
                            ELSE [c EXCEPT !.pc = afterNodes(c.op), !.nodes = cachedNodes]
                       ELSE [c EXCEPT !.pc = "list", !.listed = TRUE]]
    /\ UNCHANGED <<selection, dmu, preFailure, tickPending, callsFrame>>

\* Nodes().List returns to discoverNodeIP.  GKE and EKS select and store the
\* node and unlock; Generic stores the list in the cache
discoverListReturn(t) ==
    /\ calls[t].pc = "list"
    /\ calls[t].op = "GetCurrentNodeIP"
    /\ \E out \in ListOutcomes :
         IF out = "err"
         THEN /\ calls' = [calls EXCEPT ![t] = Done(@, NoIP, TRUE)]
              /\ dmu' = IF dmu = t THEN "none" ELSE dmu
              /\ UNCHANGED <<selection, preFailure>>
         ELSE IF isGeneric(impl)
         THEN /\ dmu \in {"none", t}
              /\ calls' = [calls EXCEPT ![t].pc = "select",
                                        ![t].nodes = convertGeneric(ListNodes)]
              /\ Set(currentNodeName, currentNodeIP, failureCount, sinceLastCheck, 0,
                     convertGeneric(ListNodes))
              /\ preFailure' = FALSE
              /\ UNCHANGED dmu
         ELSE \E nodes \in fetchedLists(impl, ListNodes) :
                LET sel == IF impl = "gke" THEN gkeOldest(nodes) ELSE firstHealthy(nodes)
                IN /\ dmu' = "none"
                   /\ preFailure' = FALSE
                   /\ IF sel = Nil
                      THEN /\ calls' = [calls EXCEPT ![t] = Done(@, NoIP, TRUE)]
                           /\ Set(currentNodeName, currentNodeIP, failureCount,
                                  sinceLastCheck, sinceCacheTime,
                                  IF impl = "gke" THEN nodes ELSE cachedNodes)
                      ELSE /\ calls' = selectedBy(
                                  [calls EXCEPT ![t] = [Done(@, sel.IP, FALSE) EXCEPT !.sel = sel]], t)
                           /\ IF impl = "gke"
                              THEN Set(sel.Name, sel.IP, failureCount, sinceLastCheck, 0, nodes)
                              ELSE Set(sel.Name, sel.IP, 0, 0, sinceCacheTime, cachedNodes)
    /\ UNCHANGED <<tickPending, callsFrame>>

\* Generic discoverNodeIP from the return of getAllNodesWithMetadata:
\* findOldestHealthyNode on the list it holds, then the update of the
\* selection under d.mutex.Lock()
selectWrite(t) ==
    /\ calls[t].pc = "select"
    /\ \E sel \in (IF calls[t].nodes = <<>> THEN {Nil}
                   ELSE genericOldestHealthy(calls[t].nodes)) :
         IF sel = Nil
         THEN /\ calls' = [calls EXCEPT ![t] = Done(@, NoIP, TRUE)]
              /\ dmu' = IF dmu = t THEN "none" ELSE dmu
              /\ UNCHANGED selection
         ELSE /\ dmu \in {"none", t}
              /\ dmu' = "none"
              /\ calls' = selectedBy(
                     [calls EXCEPT ![t] = [Done(@, sel.IP, FALSE) EXCEPT !.sel = sel]], t)
              /\ Set(sel.Name, sel.IP, 0, 0, 0, cachedNodes)
    /\ UNCHANGED <<preFailure, tickPending, callsFrame>>

\* GetAllNodes up to the call of Nodes().List: GKE and EKS return the cached
\* list while it is fresh; Generic calls getAllNodesWithMetadata
CallGetAllNodes(t) ==
    /\ MayCall(t)
    /\ IF isGeneric(impl)
       THEN calls' = [calls EXCEPT ![t] = [NoTask EXCEPT !.op = "GetAllNodes", !.pc = "cache"]]
       ELSE /\ Lockable
            /\ calls' = [calls EXCEPT ![t] =
                            IF cacheFresh
                            THEN [Done([NoTask EXCEPT !.op = "GetAllNodes"], NoIP, FALSE)
                                    EXCEPT !.nodes = cachedNodes]
                            ELSE [NoTask EXCEPT !.op = "GetAllNodes", !.pc = "list",
                                                !.listed = TRUE]]
    /\ UNCHANGED <<selection, dmu, preFailure, tickPending, callsFrame>>

\* Nodes().List returns to GetAllNodes: an error is returned with no list,
\* a list is stored in the cache under d.mutex.Lock() and returned
getAllNodesListReturn(t) ==
    /\ calls[t].pc = "list"
    /\ calls[t].op = "GetAllNodes"
    /\ \E out \in ListOutcomes :
         IF out = "err"
         THEN /\ calls' = [calls EXCEPT ![t] = Done(@, NoIP, TRUE)]
              /\ UNCHANGED <<selection, preFailure>>
         ELSE \E nodes \in fetchedLists(kind(impl), ListNodes) :
                /\ Lockable
                /\ calls' = [calls EXCEPT ![t] = [Done(@, NoIP, FALSE) EXCEPT !.nodes = nodes]]
                /\ Set(currentNodeName, currentNodeIP, failureCount, sinceLastCheck, 0, nodes)
                /\ preFailure' = FALSE
    /\ UNCHANGED <<dmu, tickPending, callsFrame>>

\* the caller has the result of its call
CallReturn(t) ==
    /\ calls[t].pc = "done"
    /\ calls' = [calls EXCEPT ![t] = NoTask]
    /\ UNCHANGED <<selection, dmu, preFailure, tickPending, callsFrame>>

\* healthMonitorLoop takes a tick: performHealthCheck reads currentNodeName
\* under d.mutex, returns when it is empty and else calls Nodes().Get
performHealthCheck ==
    /\ calls["mon"].pc = "idle"
    /\ tickPending
    /\ Lockable
    /\ tickPending' = FALSE
    /\ IF currentNodeName = NoName
       THEN UNCHANGED <<calls, dmu>>
       ELSE /\ calls' = [calls EXCEPT !["mon"] =
                            [NoTask EXCEPT !.op = "performHealthCheck", !.pc = "get",
                                           !.name = currentNodeName]]
            /\ dmu' = IF impl = GenericV1 THEN "mon" ELSE "none"
    /\ UNCHANGED <<selection, preFailure, callsFrame>>

\* the list of performFailover is asked for: Nodes().List with d.mutex
\* locked in GKE and EKS, getAllNodesWithMetadata in Generic
startFailover(cs) ==
    IF isGeneric(impl) THEN [cs EXCEPT !["mon"].pc = "cache"]
    ELSE [cs EXCEPT !["mon"].pc = "list", !["mon"].listed = TRUE]

\* Nodes().Get returns to performHealthCheck: updateCurrentNodeLastCheck,
\* then the reset of failureCount or handleNodeFailure up to the call for
\* the list of performFailover
probeReturn ==
    /\ calls["mon"].pc = "get"
    /\ dmu \in {"none", IF impl = GenericV1 THEN "mon" ELSE "none"}
    /\ \E r \in GetOutcomes(calls["mon"].name) :
         LET fetched == r # "err"
             marked == IF r = "ready" THEN (IF impl = "eks" THEN cachedNodes
                                            ELSE markCached(cachedNodes, calls["mon"].name, NodeHealthy))
                       ELSE IF fetched \/ impl = "gke"
                       THEN markCached(cachedNodes, calls["mon"].name, NodeUnhealthy)
                       ELSE cachedNodes
             lastCheck == IF isGeneric(impl) /\ fetched THEN 0 ELSE sinceLastCheck
             failover == failureCount + 1 >= FailureThreshold
         IN IF r = "ready"
            THEN /\ Set(currentNodeName, currentNodeIP,
                        IF isGeneric(impl) THEN recovered(failureCount) ELSE 0,
                        lastCheck, sinceCacheTime, marked)
                 /\ calls' = [calls EXCEPT !["mon"] = NoTask]
                 /\ dmu' = "none"
                 /\ UNCHANGED preFailure
            ELSE /\ failureCount < MaxFailures
                 /\ Set(currentNodeName,
                        IF impl = "gke" /\ failover THEN NoIP ELSE currentNodeIP,
                        failureCount + 1, lastCheck,
                        IF impl = "gke" /\ failover THEN CacheTTLTicks ELSE sinceCacheTime,
                        marked)
                 /\ preFailure' = IF failureCount = 0 THEN TRUE ELSE preFailure
                 /\ calls' = IF failover THEN startFailover(calls)
                             ELSE [calls EXCEPT !["mon"] = NoTask]
                 /\ dmu' = IF ~failover THEN "none"
                           ELSE IF impl = "generic" THEN "none" ELSE "mon"
    /\ UNCHANGED <<tickPending, callsFrame>>

\* Nodes().List returns to performFailover.  GKE and EKS switch to the first
\* Healthy node other than the current one and unlock; Generic stores the
\* list in the cache
failoverListReturn ==
    /\ calls["mon"].pc = "list"
    /\ \E out \in ListOutcomes :
         IF out = "err"
         THEN /\ calls' = [calls EXCEPT !["mon"] = NoTask]
              /\ dmu' = "none"
              /\ Set(currentNodeName, currentNodeIP,
                     IF impl = "gke" THEN 0 ELSE failureCount,
                     sinceLastCheck, sinceCacheTime, cachedNodes)
              /\ UNCHANGED preFailure
         ELSE IF isGeneric(impl)
         THEN /\ dmu \in {"none", "mon"}
              /\ calls' = [calls EXCEPT !["mon"].pc = "switch",
                                        !["mon"].nodes = convertGeneric(ListNodes)]
              /\ Set(currentNodeName, currentNodeIP, failureCount, sinceLastCheck, 0,
                     convertGeneric(ListNodes))
              /\ preFailure' = FALSE
              /\ UNCHANGED dmu
         ELSE \E nodes \in fetchedLists(impl, ListNodes) :
                LET c == firstCandidate(nodes, currentNodeName)
                IN /\ calls' = [calls EXCEPT !["mon"] = NoTask]
                   /\ dmu' = "none"
                   /\ preFailure' = FALSE
                   /\ IF c = Nil
                      THEN Set(currentNodeName, currentNodeIP,
                               IF impl = "gke" THEN 0 ELSE failureCount,
                               sinceLastCheck, sinceCacheTime, cachedNodes)
                      ELSE IF impl = "gke"
                      THEN Set(c.Name, c.IP, 0, sinceLastCheck, 0, cachedNodes)
                      ELSE Set(c.Name, c.IP, 0, 0, sinceCacheTime, cachedNodes)
    /\ UNCHANGED <<tickPending, callsFrame>>

\* Generic performFailover from the return of getAllNodesWithMetadata: the
\* oldest Healthy node of the list it holds other than the current one,
\* then the update of the selection under d.mutex.Lock()
failoverSwitch ==
    /\ calls["mon"].pc = "switch"
    /\ dmu \in {"none", "mon"}
    /\ LET c == genericCandidate(calls["mon"].nodes, currentNodeName)
       IN IF c = Nil
          THEN /\ calls' = [calls EXCEPT !["mon"] = NoTask]
               /\ UNCHANGED selection
          ELSE /\ calls' = failedAway([calls EXCEPT !["mon"] = NoTask], currentNodeName)
               /\ Set(c.Name, c.IP, 0, 0, sinceCacheTime, cachedNodes)
    /\ dmu' = "none"
    /\ UNCHANGED <<preFailure, tickPending, callsFrame>>

\* 15 s pass between the requests, which take far less
CallsTick ==
    /\ \A t \in Requests : calls[t].pc = "idle"
    /\ Tick

CallsNext ==
    \/ StartHealthMonitoring
    \/ CallsTick
    \/ \E t \in Requests : CallGetCurrentNodeIP(t)
    \/ \E t \in Requests : discoverLock(t)
    \/ \E t \in Tasks : cacheLookup(t)
    \/ \E t \in Requests : discoverListReturn(t)
    \/ \E t \in Requests : selectWrite(t)
    \/ \E t \in Requests : CallGetAllNodes(t)
    \/ \E t \in Requests : getAllNodesListReturn(t)
    \/ \E t \in Requests : CallReturn(t)
    \/ performHealthCheck
    \/ probeReturn
    \/ failoverListReturn
    \/ failoverSwitch

SpecCalls == CallsInit /\ [][CallsNext]_vars

----------------------------------------------------------------------------
(* Properties of Spec *)

\* the nodes other than a whose Ready condition is True
OthersReady(a) == { n \in Names \ {a} : cluster[n] = "True" }

\* the nodes of S with the earliest creation timestamp
OldestOf(S) == { n \in S : \A m \in S : CreationTimeOf(n) <= CreationTimeOf(m) }

\* the positions of the Healthy records of a list
HealthyIn(nodes) == { i \in 1..Len(nodes) : IsHealthy(nodes[i]) }

\* C2: at the end of the third consecutive failed probe of the current node,
\* when another node is Ready and the node list of a failover was fetched,
\* the current node is the oldest Ready node other than the probed one and
\* failureCount is 0.
C2_FailoverAtThirdFailure ==
    (/\ monPc = "ret"
     /\ failStreak = FailureThreshold
     /\ OthersReady(probeNode) # {}
     /\ (foLog.ran => foLog.listed))
    => (/\ currentNodeName \in OldestOf(OthersReady(probeNode))
        /\ failureCount = 0)

\* C3: while the current node is Ready, and the monitor fetched it within
\* the last 30 s and no probe of it has failed since the monitor took it up,
\* no step (a probe, a call of GetCurrentNodeIP) changes currentNodeName.
C3_NoThrash ==
    [][(/\ currentNodeName # NoName
        /\ cluster[currentNodeName] = "True"
        /\ cluster' = cluster
        /\ probeNode = currentNodeName
        /\ failStreak = 0
        /\ sinceProbe < CheckValidTicks)
       => currentNodeName' = currentNodeName]_vars

C5_NoCandidateLeavesSelection ==
    (monPc = "ret" /\ foLog.ran /\ foLog.listed /\ foLog.picked = Nil) =>
        /\ currentNodeName = foLog.from
        /\ currentNodeIP = foLog.fromIP
        /\ failureCount = foLog.fromFc

\* a call of GetCurrentNodeIP that had to select has returned
HadToSelect == reqPc = "got" /\ reqResult.kind \in {"selected", "error"}

C7_ReadyProbeResetsCount ==
    (monPc = "ret" /\ probeResult = "ready") => failureCount = 0

\* a Ready probe after failed ones
C7_Witness ==
    /\ monPc = "ret"
    /\ probeResult = "ready"
    /\ probeFc > 0
    /\ failureCount = 0

\* C8: a call of GetCurrentNodeIP made while a node is selected that the
\* monitor fetched within the last 30 s returns the cached IP and does not
\* contact the cluster.
C8_CachedWhenProbedRecently ==
    [][(/\ reqPc = "idle"
        /\ reqPc' = "got"
        /\ currentNodeIP # NoIP
        /\ probeNode = currentNodeName
        /\ sinceProbe < CheckValidTicks)
       => (/\ reqResult'.kind = "cached"
           /\ ~reqResult'.contacted
           /\ reqResult'.ip = currentNodeIP)]_vars

\* C12: a forward that fails leaves failureCount, the current node and the
\* record of the last failover as they were, and no step of a request
\* increments failureCount or runs a failover.
C12_FailedForwardNotCounted ==
    [][/\ (reqPc' # reqPc) => (failureCount' <= failureCount /\ foLog' = foLog)
       /\ (forward = "none" /\ forward' = "error") =>
              /\ failureCount' = failureCount
              /\ currentNodeName' = currentNodeName
              /\ currentNodeIP' = currentNodeIP
              /\ monPc' = monPc]_vars

\* a forward has failed while the monitor runs and the current node is one
\* failed probe short of the failover threshold
C12_Witness ==
    /\ reqPc = "fwd"
    /\ forward = "error"
    /\ monitoring
    /\ currentNodeName # NoName
    /\ failureCount = FailureThreshold - 1

----------------------------------------------------------------------------
(* Properties of SpecHandler *)

\* C9: a request that arrived on a listener's port, with a node IP available,
\* is sent upstream once, to http://<ip>:<that port><path>?<query>, whatever
\* its Host header.
C9_PortPreserved ==
    (hPc \in {"dial", "done"} /\ hPath # "/health" /\ ~hDiscovery.err) =>
        /\ hAttempts = 1
        /\ hTarget = targetURL(hDiscovery.ip, hPort, hPath, hQuery)

\* C10: when GetCurrentNodeIP returns an error, the handler answers 503 and
\* sends nothing upstream.
C10_Unavailable503 ==
    (hPc \in {"dial", "done"} /\ hDiscovery.err) =>
        /\ hPc = "done"
        /\ hStatus = StatusServiceUnavailable
        /\ hAttempts = 0
        /\ hTarget = <<>>

\* a request to forward, with a Host that names a port, answered 503
C10_Witness ==
    /\ hPc = "done"
    /\ hDiscovery.err
    /\ hPath # "/health"
    /\ extractPort(hHost) = hPort
    /\ hStatus = StatusServiceUnavailable
    /\ hAttempts = 0

\* C11: when client.Do fails, the handler answers 502 and has sent exactly
\* one request upstream for that request.
C11_UpstreamFailure502 ==
    (hPc = "done" /\ hUpstream = "error") =>
        /\ hStatus = StatusBadGateway
        /\ hAttempts = 1

\* a forwarded request whose client.Do failed has been answered
C11_Witness ==
    /\ hPc = "done"
    /\ hUpstream = "error"
    /\ hPath # "/health"
    /\ hTarget # <<>>
    /\ hStatus = StatusBadGateway

----------------------------------------------------------------------------
(* Properties of SpecPorts *)

\* the listeners of port p whose goroutine has not closed done
Live(p) == { i \in 1..Len(lsn) : lsn[i].port = p /\ ~lsn[i].done }

\* C13: no port ever has two live listeners, and a StartPort(p) made while a
\* listener is registered for p returns "port <p> already listening" and
\* leaves that listener registered, as the only live listener of p.
C13_OneListenerPerPort ==
    /\ \A p \in Ports : Cardinality(Live(p)) <= 1
    /\ (pmCall.name = "StartPort" /\ pmCall.pc = "ret" /\ pmCall.before # 0) =>
          /\ pmCall.err = <<"port ", pmCall.port, " already listening">>
          /\ pmListeners[pmCall.port] = pmCall.before
          /\ Live(pmCall.port) = {pmCall.before}

\* a second StartPort of a port has failed, after an earlier listener of the
\* same port was stopped
C13_Witness ==
    /\ pmCall.name = "StartPort"
    /\ pmCall.pc = "ret"
    /\ pmCall.before # 0
    /\ pmCall.err # <<>>
    /\ \E i \in 1..Len(lsn) : lsn[i].port = pmCall.port /\ lsn[i].done

\* C14: when StopAll returns, every listener created has closed done and
\* GetListeningPorts is empty.
C14_StopAllWaitsForDrains ==
    (pmCall.name = "StopAll" /\ pmCall.pc = "ret") =>
        /\ \A i \in 1..Len(lsn) : lsn[i].done
        /\ GetListeningPorts = {}

\* StopAll has returned after it stopped listeners of two ports, one of
\* which was serving
C14_Witness ==
    /\ pmCall.name = "StopAll"
    /\ pmCall.pc = "ret"
    /\ \A p \in Ports : \E i \in 1..Len(lsn) : lsn[i].port = p
    /\ \E i \in 1..Len(lsn) : lsn[i].server = "closed"

\* C15: once a listener has closed done, none of its connections is still
\* being served.
C15_NoConnectionAfterDrain ==
    \A i \in 1..Len(lsn) : lsn[i].done => lsn[i].conns = 0

----------------------------------------------------------------------------
(* Properties of SpecMgmt *)

\* C16: a request on the management port whose path is not /, /health or
\* /info is answered 404, and nothing is sent to a node.
C16_OtherPaths404 ==
    (mPc = "done" /\ mPath \notin {"/", "/health", "/info"}) =>
        /\ mStatus = StatusNotFound
        /\ mUpstream = 0

\* C18: a request for /health on the management port sends nothing to the
\* cluster API and never waits for d.mutex while Nodes().List is in flight.
C18_HealthFromCacheOnly ==
    (mPath = "/health" /\ mPc \in {"blocked", "done"}) =>
        /\ mPc # "blocked"
        /\ ~mRpc

----------------------------------------------------------------------------
(* Properties of SpecBoot *)

\* the listeners that are registered, with their handlers
BoundHandlers(p) == IF exists(pmListeners, p) THEN {bHandlers[pmListeners[p]]} ELSE {}

\* C17: no listener of the management port ever has the proxy handler, and
\* once Run has started the proxy listeners, with a discovered NodePort equal
\* to the management port, that port is still served by the management
\* handler.
C17_ManagementPortKept ==
    /\ \A i \in 1..Len(lsn) : lsn[i].port = bServicePort => bHandlers[i] = "service"
    /\ (bPc = "serving" /\ \E i \in 1..Len(bPorts) : bPorts[i] = bServicePort) =>
          BoundHandlers(bServicePort) = {"service"}

\* Run serves, a discovered NodePort is the management port, and another
\* discovered port has its proxy listener
C17_Witness ==
    /\ bPc = "serving"
    /\ \E i \in 1..Len(bPorts) : bPorts[i] = bServicePort
    /\ BoundHandlers(bServicePort) = {"service"}
    /\ \E i \in 1..Len(lsn) : bHandlers[i] = "proxy"

\* C19: with an empty namespace, DiscoverServices returns the configuration
\* error and lists no services; it never lists the services of all
\* namespaces.
C19_EmptyNamespaceFails ==
    /\ (bNamespace = "" /\ bPc # "new") =>
          /\ bDiscover.err = "NAMESPACE environment variable is required"
          /\ ~bDiscover.listed
    /\ ~(bDiscover.listed /\ bDiscover.namespace = "")

\* C20: with an empty namespace, Run ends in an error and no listener is
\* ever created.
C20_EmptyNamespaceNoListener ==
    bNamespace = "" =>
        /\ lsn = <<>>
        /\ bPc \in {"new", "exited"}
        /\ bPc = "exited" => bExit = "error"

----------------------------------------------------------------------------
(* Properties of SpecSelect: ties and empty lists *)

\* position of a node name in ascending order
NameIndex(n) == CHOOSE i \in 1..Len(NameOrder) : NameOrder[i] = n

\* the Healthy nodes offered that have the minimum creation time
OldestHealthyOffered ==
    LET off == OfferedTo(impl, selNodes)
    IN { i \in HealthyOffered :
           \A j \in HealthyOffered : off[i].CreationTime <= off[j].CreationTime }

\* C22: when several Healthy nodes share the minimum creation time, the
\* node selected is the one of them whose name is first in ascending order.
C22_TieBrokenByName ==
    (selPc = "out" /\ Cardinality(OldestHealthyOffered) > 1) =>
        \A i \in OldestHealthyOffered :
            NameIndex(selOut.Name) <= NameIndex(OfferedTo(impl, selNodes)[i].Name)

----------------------------------------------------------------------------
(* Properties of SpecMonitor *)

\* the healthMonitorLoop goroutines that have not returned
Running(ls) == { i \in 1..Len(ls) : ls[i].pc # "exit" }

\* C21: whatever calls of StartHealthMonitoring and StopHealthMonitoring
\* were made, at most one healthMonitorLoop is running, and a
\* StopHealthMonitoring after the first changes nothing.
C21_StartStopIdempotent ==
    [][/\ Cardinality(Running(loops')) <= 1
       /\ stopCalls >= 1 => (cancelled' = cancelled /\ monitoring' = monitoring)]_vars

\* C28: with one monitor running, after a performFailover that listed the
\* nodes and found no candidate, every further failed probe runs
\* performFailover again, and a performFailover that lists the nodes while
\* another node is Ready switches to another node.
C28_RetriesUntilSwitched ==
    [][\A i \in 1..Len(loops) :
         (Len(loops) = 1 /\ stopCalls = 0 /\ lastFailover = "none") =>
            /\ (loops[i].pc = "get" /\ loops'[i].pc # "get" /\ failureCount' # 0) =>
                  loops'[i].pc = "list"
            /\ (/\ loops[i].pc = "list"
                /\ loops'[i].pc # "list"
                /\ lastFailover' # "error"
                /\ \E n \in Names : n # currentNodeName /\ cluster[n] = "True") =>
                  currentNodeName' # currentNodeName]_vars

\* C29: when a running monitor takes a tick while no node is selected and a
\* node of the cluster is Ready, it starts a selection: a node is selected
\* or a request to the cluster is in flight.
C29_MonitorSelectsWhenNone ==
    [][\A i \in 1..Len(loops) :
         (/\ loops[i].pc = "wait"
          /\ loops[i].tick
          /\ ~loops'[i].tick
          /\ ~cancelled
          /\ currentNodeName = NoName
          /\ \E n \in Names : cluster[n] = "True") =>
            (currentNodeName' # NoName \/ loops'[i].pc # "wait")]_vars

\* C30: once StopHealthMonitoring has been called, the selection (node name
\* and IP) does not change any more.
C30_NoChangeAfterStop ==
    [][stopCalls >= 1 =>
          (currentNodeName' = currentNodeName /\ currentNodeIP' = currentNodeIP)]_vars

----------------------------------------------------------------------------
(* Properties of SpecMgmt: the lock of the selection *)

\* C27: d.mutex, which guards the current selection, is not held while a
\* request to the cluster API (Nodes().List, Nodes().Get) is in progress.
C27_NoLockAcrossRpc == dLock = "none"

----------------------------------------------------------------------------
(* Properties of SpecHeaders *)

\* the keys that spell a hop-by-hop header, in any of the spellings
HopByHopKeys == UNION { Spellings(name) : name \in SkippedNames }

\* the values proxyReq.Header holds for a key
Forwarded(key) ==
    { proxyHeader[i].values : i \in { j \in 1..Len(proxyHeader) : proxyHeader[j].key = key } }

\* C24: after the copy, proxyReq.Header holds no hop-by-hop header in any
\* spelling, and it holds every value of every other header of the request
\* under the canonical form of its key.
C24_HopByHopStripped ==
    hdrPc = "out" =>
        /\ \A i \in 1..Len(proxyHeader) : proxyHeader[i].key \notin HopByHopKeys
        /\ \A i \in 1..Len(rHeader) :
             rHeader[i].key \notin HopByHopKeys =>
                \E vs \in Forwarded(CanonicalMIMEHeaderKey(rHeader[i].key)) :
                   \A v \in 1..Len(rHeader[i].values) :
                      \E w \in 1..Len(vs) : vs[w] = rHeader[i].values[v]

\* C24 witness: a request with a hop-by-hop header spelled in upper case and
\* another header; only the other header was copied
C24_Witness ==
    /\ hdrPc = "out"
    /\ Len(rHeader) = 2
    /\ \E i \in 1..2 :
         /\ rHeader[i].key \in HopByHopKeys
         /\ rHeader[i].key # ToLower(rHeader[i].key)
         /\ rHeader[i].key # CanonicalMIMEHeaderKey(rHeader[i].key)
    /\ Len(proxyHeader) = 1

----------------------------------------------------------------------------
(* Properties of SpecBoot: the ports discovered *)

\* C25: the ports DiscoverNodePorts returned hold every node port once, so
\* that Run calls StartPort once for each.
C25_PortsDeduplicated ==
    \A i, j \in 1..Len(bPorts) : i # j => bPorts[i] # bPorts[j]

----------------------------------------------------------------------------
(* Properties of SpecPorts: the ports listed *)

\* the call in progress gets to its return in this step
Returns(name) == pmCall.pc # "ret" /\ pmCall'.pc = "ret" /\ pmCall'.name = name

\* the ports started and not stopped since, after a step: a StartPort that
\* returns nil adds its port, a StopPort that returns nil removes its port,
\* StopAll removes every port, and nothing else changes them
StartedNotStopped(before) ==
    IF Returns("StartPort") /\ pmCall'.err = <<>> THEN before \cup {pmCall'.port}
    ELSE IF Returns("StopPort") /\ pmCall'.err = <<>> THEN before \ {pmCall'.port}
    ELSE IF Returns("StopAll") THEN {}
    ELSE before

\* C26: GetListeningPorts is empty for a new PortManager, and after every
\* step of a sequence of StartPort, StopPort and StopAll calls it is the set
\* of the ports for which StartPort has returned nil and which no StopPort
\* that returned nil and no StopAll has stopped since.
C26_ListeningPortsAreStartedNotStopped ==
    /\ GetListeningPorts = {}
    /\ [][GetListeningPorts' = StartedNotStopped(GetListeningPorts)]_vars

\* StopPort has returned nil for one of two ports started, the other port
\* is still listed, and the port stopped had been started twice
C26_Witness ==
    /\ pmCall.name = "StopPort"
    /\ pmCall.pc = "ret"
    /\ pmCall.err = <<>>
    /\ GetListeningPorts = Ports \ {pmCall.port}
    /\ \E i \in 1..Len(lsn) : lsn[i].port = pmCall.port /\ i # pmCall.before

----------------------------------------------------------------------------
(* Properties of SpecMonitor: the shutdown of Run *)

\* C31: when Run calls StopAll after the signal, and from then on, every
\* healthMonitorLoop goroutine has returned: none waits for a tick, none has
\* a probe or a failover in flight.
C31_MonitorStoppedBeforeListeners ==
    pmCall.name = "StopAll" => \A i \in 1..Len(loops) : loops[i].pc = "exit"

----------------------------------------------------------------------------
(* Properties of Spec: a probe and the selection it finds on its return *)

\* C38: a probe of node X that returns without X Ready while another node
\* is current leaves failureCount and the current node as they are.
C38_ProbeAppliedToProbedNode ==
    [][(/\ monPc = "get"
        /\ monPc' = "ret"
        /\ probeResult' # "ready"
        /\ probeNode # currentNodeName)
       => (failureCount' = failureCount /\ currentNodeName' = currentNodeName)]_vars

----------------------------------------------------------------------------
(* Properties of SpecSelect: the address of a node record *)

\* C34: every node record offered to selection has a non-empty IP, and a
\* node that was selected has one.
C34_OfferedHaveIP ==
    selPc = "out" =>
        /\ \A i \in 1..Len(OfferedTo(impl, selNodes)) :
               OfferedTo(impl, selNodes)[i].IP # NoIP
        /\ selOut # Nil => selOut.IP # NoIP

----------------------------------------------------------------------------
(* Properties of SpecCalls *)

\* the call of GetCurrentNodeIP of the task has its Nodes().List in flight
Listing(t) == calls[t].op = "GetCurrentNodeIP" /\ calls[t].pc = "list"

\* C32: of the calls of GetCurrentNodeIP that found the IP expired at the
\* same time, no two have a Nodes().List in flight together, and none sends
\* a Nodes().List after another of them has selected a node.
C32_ExpiredCallsCoalesce ==
    /\ ~(Listing("r1") /\ Listing("r2"))
    /\ \A t \in Requests : ~(Listing(t) /\ calls[t].stale)

\* C33: performFailover does not pick its candidate from a cached node list
\* that was fetched before the first of the failures that led to it: it
\* holds a list that its own Nodes().List returned, or one fetched since
\* failureCount left 0.
C33_FailoverListAfterFailures ==
    calls["mon"].pc = "switch" => (calls["mon"].listed \/ ~preFailure)

\* C35: a GetAllNodes whose Nodes().List failed returns, with its error, the
\* list that the cache holds.
C35_CachedListOnError ==
    \A t \in Requests :
        (calls[t].op = "GetAllNodes" /\ calls[t].pc = "done" /\ calls[t].err) =>
            calls[t].nodes = cachedNodes

\* C37: no task that holds d.mutex locked is at the d.mutex.RLock() of
\* getAllNodesWithMetadata, where it would wait for itself for ever.
C37_NoLockWhileHeld ==
    \A t \in Tasks : dmu = t => calls[t].pc # "cache"

\* C39: a call of GetCurrentNodeIP that held its node list while a failover
\* left a node does not select that node and write it back as current.
C39_FailoverNotOverwritten ==
    \A t \in Requests :
        (/\ calls[t].op = "GetCurrentNodeIP"
         /\ calls[t].pc = "done"
         /\ ~calls[t].err
         /\ calls[t].avoid # NoName)
        => calls[t].sel.Name # calls[t].avoid

\* C36: a first node selection that fails at startup does not end the
\* process: Run goes on to start the monitor and open the listeners, so the
\* process never exits with an error while its first GetCurrentNodeIP has
\* failed and service discovery has not
C36_FailedSelectionNotFatal ==
    (bSelect # <<>> /\ bSelect[1] = "failed" /\ bDiscover.err = "")
        => ~(bPc = "exited" /\ bExit = "error")

\* C40: a port is listed by GetListeningPorts, its StartPort having reported
\* success, only while its listener is bound and serving: no listener whose
\* bind has failed is registered in pm.listeners
C40_ListedPortsAreBound ==
    \A p \in GetListeningPorts :
       LET l == lsn[pmListeners[p]]
       IN  ~l.shutdown => l.server # "failed"

====
